---- MODULE Spec2Model ----
(***************************************************************************)
(* GitChamber: the per-repository cache actor (Durable Object RepoCache),  *)
(* the worker-side ingestion pipeline (populateRepo) and the three read    *)
(* routes of the worker.                                                   *)
(*                                                                         *)
(* Strings are sequences of one-character strings.  A Text is a record     *)
(* [s, pad]: the string s followed by pad further characters that are not  *)
(* line breaks (a compact form of long single-line tails, so that the      *)
(* 1,000,000 byte limit and the 20 MiB batch ceiling keep their real       *)
(* values).  Times are milliseconds counted from an epoch shortly before   *)
(* the first state, so that they fit TLC's integers.                       *)
(***************************************************************************)
EXTENDS Integers, Sequences, FiniteSets, TLC

VARIABLES
  now,        \* Date.now()
  ticks,      \* number of times the clock was seen to have advanced
  upstream,   \* the archive github.com serves for the branch, or a failure status
  pushes,     \* number of upstream changes so far
  tables,     \* SQLite: files_<suffix> tables that exist, suffix -> set of rows
  meta,       \* SQLite: meta table, suffix -> lastFetched value
  alarm,      \* ctx.storage alarm: NoAlarm or the scheduled time
  part,       \* the cache key of the partition (Durable Object) observed
  reqs,       \* the HTTP requests: handler position and populateRepo locals
  hist        \* history: what the last run and the run before it left

vars == <<now, ticks, upstream, pushes, tables, meta, alarm, part, reqs, hist>>

(* ---------------------------------------------------------------------- *)
(* Bounds of the model                                                     *)
(* ---------------------------------------------------------------------- *)
MaxReq == 2
MaxTicks == 1
MaxPushes == 1

(* ---------------------------------------------------------------------- *)
(* Program constants                                                       *)
(* ---------------------------------------------------------------------- *)
DEFAULT_TTL == 21600000
MAX_FILE_LINES == 1000
MAX_TEXT_BYTES == 1000000
ONE_DAY == 24 * 60 * 60 * 1000
MAX_BATCH_SIZE == 20 * 1024 * 1024

NoAlarm == -1

(* ---------------------------------------------------------------------- *)
(* Strings                                                                 *)
(* ---------------------------------------------------------------------- *)
NL == "\n"

Range(f) == {f[i] : i \in DOMAIN f}

Max(a, b) == IF a >= b THEN a ELSE b
Min(a, b) == IF a <= b THEN a ELSE b

Repeat(c, n) == [i \in 1..n |-> c]

\* Number.prototype.toString for a non-negative integer
RECURSIVE NumToString(_)
NumToString(n) ==
  LET d == <<"0", "1", "2", "3", "4", "5", "6", "7", "8", "9">>
  IN  IF n < 10 THEN <<d[n + 1]>> ELSE NumToString(n \div 10) \o <<d[(n % 10) + 1]>>

\* String.prototype.split("\n") on a Text: the lines, the pad on the last one
RECURSIVE SplitLines(_)
SplitLines(s) ==
  IF Len(s) = 0 THEN << <<>> >>
  ELSE IF Len(s) = 1 THEN (IF s[1] = NL THEN << <<>>, <<>> >> ELSE <<s>>)
  ELSE LET h == Len(s) \div 2
           a == SplitLines(SubSeq(s, 1, h))
           b == SplitLines(SubSeq(s, h + 1, Len(s)))
       IN  SubSeq(a, 1, Len(a) - 1) \o <<a[Len(a)] \o b[1]>> \o Tail(b)

Split(t) ==
  LET ls == SplitLines(t.s)
  IN  [i \in 1..Len(ls) |-> [s |-> ls[i], pad |-> IF i = Len(ls) THEN t.pad ELSE 0]]

Line(s) == [s |-> s, pad |-> 0]

Digits == <<"0", "1", "2", "3", "4", "5", "6", "7", "8", "9">>
UpperCase == <<"A", "B", "C", "D", "E", "F", "G", "H", "I", "J", "K", "L", "M",
               "N", "O", "P", "Q", "R", "S", "T", "U", "V", "W", "X", "Y", "Z">>
LowerCase == <<"a", "b", "c", "d", "e", "f", "g", "h", "i", "j", "k", "l", "m",
               "n", "o", "p", "q", "r", "s", "t", "u", "v", "w", "x", "y", "z">>

\* the lower-case letter of each upper-case letter
LowerOf == [c \in Range(UpperCase) |-> LowerCase[CHOOSE i \in 1..26 : UpperCase[i] = c]]

\* String.prototype.toLowerCase, one character
ToLowerChar(c) == IF c \in DOMAIN LowerOf THEN LowerOf[c] ELSE c

ToLowerCase(s) == [i \in 1..Len(s) |-> ToLowerChar(s[i])]

IsAlnum(c) == c \in Range(UpperCase) \cup Range(LowerCase) \cup Range(Digits)

\* Number(val) of a string of decimal digits
RECURSIVE ParseDigits(_, _)
ParseDigits(s, n) ==
  IF n = 0 THEN 0
  ELSE 10 * ParseDigits(s, n - 1) + ((CHOOSE i \in 1..10 : Digits[i] = s[n]) - 1)

ParseNumber(s) == ParseDigits(s, Len(s))

\* String.prototype.split(sep) for a one-character separator
RECURSIVE SplitBy(_, _)
SplitBy(s, sep) ==
  IF \A i \in 1..Len(s) : s[i] # sep THEN <<s>>
  ELSE LET k == CHOOSE i \in 1..Len(s) :
                  s[i] = sep /\ \A j \in 1..(i - 1) : s[j] # sep
       IN  <<SubSeq(s, 1, k - 1)>> \o SplitBy(SubSeq(s, k + 1, Len(s)), sep)

\* Array.prototype.join(sep)
RECURSIVE JoinBy(_, _)
JoinBy(parts, sep) ==
  IF Len(parts) = 0 THEN <<>>
  ELSE IF Len(parts) = 1 THEN parts[1]
  ELSE parts[1] \o <<sep>> \o JoinBy(Tail(parts), sep)

StartsWith(s, p) == Len(s) >= Len(p) /\ SubSeq(s, 1, Len(p)) = p
EndsWith(s, p) == Len(s) >= Len(p) /\ SubSeq(s, Len(s) - Len(p) + 1, Len(s)) = p

(* ---------------------------------------------------------------------- *)
(* Glob patterns, table suffixes and cache keys                            *)
(* ---------------------------------------------------------------------- *)
DEFAULT_GLOB ==
  <<"*", "*", "/", "{", "*", ".", "m", "d", ",", "*", ".", "m", "d", "x", ",",
    "R", "E", "A", "D", "M", "E", "*", "}">>
ALL_GLOB == <<"*", "*", "/", "*">>

\* two patterns without a wildcard, which name one file each
G_lower == <<"a", ".", "m", "d">>
G_upper == <<"A", ".", "m", "d">>

\* the glob patterns requests of the model carry (query.glob || DEFAULT_GLOB)
Globs == {DEFAULT_GLOB, ALL_GLOB, G_lower, G_upper}

globToTableSuffix(glob) ==
  IF Len(glob) = 0 THEN <<"d", "e", "f", "a", "u", "l", "t">>
  ELSE IF glob = ALL_GLOB THEN <<"a", "l", "l", "_", "f", "i", "l", "e", "s">>
  ELSE IF glob = DEFAULT_GLOB
    THEN <<"m", "a", "r", "k", "d", "o", "w", "n", "_", "o", "n", "l", "y">>
  ELSE ToLowerCase([i \in 1..Len(glob) |-> IF IsAlnum(glob[i]) THEN glob[i] ELSE "_"])

\* region, owner, repo and branch are the same for every request of the model
BasePath == <<"o", "/", "r", "/", "m">>
Region == <<"e", "n", "a", "m">>

getCacheKey(glob) ==
  LET pathWithGlob == IF Len(glob) > 0
                        THEN BasePath \o <<"/">> \o globToTableSuffix(glob)
                        ELSE BasePath
  IN  Region \o <<".">> \o pathWithGlob

\* a pattern of letters, digits and dots only matches the path equal to it
IsLiteral(glob) == \A i \in 1..Len(glob) : IsAlnum(glob[i]) \/ glob[i] = "."

\* micromatch.isMatch(rel, glob) for the patterns of Globs: "**/" is any number
\* of directories, "*" any run of characters inside one segment, and no
\* segment matched by a wildcard may start with a dot; a pattern without
\* wildcards is compared with the path, case-sensitively
isMatch(rel, glob) ==
  LET segs == SplitBy(rel, "/")
      base == segs[Len(segs)]
      noDot == \A i \in 1..Len(segs) : ~StartsWith(segs[i], <<".">>)
  IN  IF IsLiteral(glob) THEN rel = glob
      ELSE /\ Len(rel) > 0
           /\ noDot
           /\ Len(base) > 0
           /\ IF glob = ALL_GLOB THEN TRUE
              ELSE \/ EndsWith(base, <<".", "m", "d">>)
                   \/ EndsWith(base, <<".", "m", "d", "x">>)
                   \/ StartsWith(base, <<"R", "E", "A", "D", "M", "E">>)

(* ---------------------------------------------------------------------- *)
(* Archive entries                                                         *)
(* ---------------------------------------------------------------------- *)
\* A tar entry: name (with the archive's top-level folder), header type, and
\* the body as UTF-8 units: a character (one byte), "BOM" (the three bytes
\* EF BB BF) or "BAD" (a byte that is not valid UTF-8), then pad more bytes of
\* plain text.
Entry(name, type, b, pad) == [name |-> name, type |-> type, b |-> b, pad |-> pad]

byteLength(ent) ==
  Len(ent.b) + 2 * Cardinality({i \in 1..Len(ent.b) : ent.b[i] = "BOM"}) + ent.pad

\* new TextDecoder('utf-8', {fatal: true, ignoreBOM: false}).decode(buf):
\* throws on an invalid byte, drops a leading byte order mark
DecodeThrows(ent) == \E i \in 1..Len(ent.b) : ent.b[i] = "BAD"

Decode(ent) ==
  [s |-> IF Len(ent.b) > 0 /\ ent.b[1] = "BOM" THEN Tail(ent.b) ELSE ent.b,
   pad |-> ent.pad]

TextLength(t) == Len(t.s) + t.pad

RelPath(name) == JoinBy(Tail(SplitBy(name, "/")), "/")

NoFile == [path |-> <<>>, content |-> [s |-> <<>>, pad |-> -1]]

\* the entry callback without the size test of the entry
Admit_anySize(ent, glob) ==
  IF ent.type # "file" THEN NoFile
  ELSE IF DecodeThrows(ent) THEN NoFile
  ELSE IF Len(glob) > 0 /\ glob # ALL_GLOB /\ ~isMatch(RelPath(ent.name), glob) THEN NoFile
  ELSE [path |-> RelPath(ent.name), content |-> Decode(ent)]

\* the file the parseTar callback adds to the batch for an entry, or NoFile
Admit(ent, glob) ==
  IF ent.type # "file" THEN NoFile
  ELSE IF ~(byteLength(ent) < MAX_TEXT_BYTES) THEN NoFile
  ELSE IF DecodeThrows(ent) THEN NoFile
  ELSE IF Len(glob) > 0 /\ glob # ALL_GLOB /\ ~isMatch(RelPath(ent.name), glob) THEN NoFile
  ELSE [path |-> RelPath(ent.name), content |-> Decode(ent)]

fileSize(file) == Len(file.path) + TextLength(file.content)


(* ---------------------------------------------------------------------- *)
(* formatFileWithLines (utils.ts)                                          *)
(* ---------------------------------------------------------------------- *)
Undefined == -1000000

StrTruncated(n) ==
  <<"[", "F", "i", "l", "e", " ", "t", "r", "u", "n", "c", "a", "t", "e", "d", ":", " ">>
  \o NumToString(n)
  \o <<" ", "m", "o", "r", "e", " ", "l", "i", "n", "e", "s", "]">>

StrEndOfFile == <<"e", "n", "d", " ", "o", "f", " ", "f", "i", "l", "e">>

\* String.prototype.padStart(width, " ")
PadStart(s, width) == IF Len(s) >= width THEN s ELSE Repeat(" ", width - Len(s)) \o s

\* The result array of formatFileWithLines before its join("\n"), as lines
\* (the "\n[File truncated ...]" element is an empty line and the marker).
\* startLine and endLine are integers or Undefined.
formatFileWithLines(content, showLineNumbers, startLine, endLine, maxLines) ==
  LET lines == Split(content)
      n == Len(lines)
      effectiveEndLine ==
        IF startLine = Undefined /\ endLine = Undefined /\ n > maxLines
          THEN maxLines ELSE endLine
      \* "startLine ? ... : 0" and "effectiveEndLine ? ... : lines.length":
      \* undefined and 0 are both falsy
      truthyStart == startLine # Undefined /\ startLine # 0
      truthyEnd == effectiveEndLine # Undefined /\ effectiveEndLine # 0
      actualStart == IF truthyStart THEN Max(0, startLine - 1) ELSE 0
      actualEnd == IF truthyEnd THEN Min(effectiveEndLine, n) ELSE n
      \* Array.prototype.slice(start, end): a negative end counts from the end
      sliceEnd == IF actualEnd < 0 THEN Max(n + actualEnd, 0) ELSE actualEnd
      filteredLines ==
        IF startLine # Undefined \/ effectiveEndLine # Undefined
          THEN SubSeq(lines, actualStart + 1, sliceEnd)
          ELSE lines
      hasContentBelow == actualEnd < n
      linesRemaining == IF hasContentBelow THEN n - actualEnd ELSE 0
      shouldShowLineNumbers ==
        showLineNumbers \/ startLine # Undefined \/ effectiveEndLine # Undefined
      startLineNumber == IF truthyStart THEN startLine ELSE 1
      maxLineNumber == startLineNumber + Len(filteredLines) - 1
      numStr(k) == IF k < 0 THEN <<"-">> \o NumToString(0 - k) ELSE NumToString(k)
      padding == Len(numStr(maxLineNumber))
      formattedLines ==
        [i \in 1..Len(filteredLines) |->
           [s |-> PadStart(numStr(startLineNumber + i - 1), padding)
                    \o <<" ", " ">> \o filteredLines[i].s,
            pad |-> filteredLines[i].pad]]
  IN  IF shouldShowLineNumbers
        THEN formattedLines
             \o (IF ~hasContentBelow THEN <<Line(StrEndOfFile)>>
                 ELSE IF linesRemaining > 0 THEN <<Line(StrTruncated(linesRemaining))>>
                 ELSE <<>>)
        ELSE filteredLines
             \o (IF ~hasContentBelow /\ Len(filteredLines) > 0 THEN <<>>
                 ELSE IF linesRemaining > 0
                   THEN <<Line(<<>>), Line(StrTruncated(linesRemaining))>>
                 ELSE <<>>)

(* ---------------------------------------------------------------------- *)
(* The Durable Object RepoCache: its storage and its methods               *)
(* ---------------------------------------------------------------------- *)
\* A row of a files_<suffix> table (path is the PRIMARY KEY); the
\* firstFetched column is never read by the program and is left out.
Row(file) == [path |-> file.path, content |-> file.content]

PathsOf(rows) == {r.path : r \in rows}

\* ensureTablesForGlob that drops the table before it creates it
ensureTablesForGlob_reset(tb, glob) ==
  LET sfx == globToTableSuffix(glob)
  IN  [x \in DOMAIN tb \cup {sfx} |-> IF x = sfx THEN {} ELSE tb[x]]

\* ensureTablesForGlob: CREATE TABLE IF NOT EXISTS files_<suffix>
ensureTablesForGlob(tb, glob) ==
  LET sfx == globToTableSuffix(glob)
  IN  IF sfx \in DOMAIN tb THEN tb
      ELSE [x \in DOMAIN tb \cup {sfx} |-> IF x = sfx THEN {} ELSE tb[x]]

\* ensureFresh with <= for <: the boundary age counts as fresh
ensureFresh_le(mt, glob, t, ttl) ==
  LET metaKey == globToTableSuffix(glob)
      last == IF metaKey \in DOMAIN mt THEN ParseNumber(mt[metaKey]) ELSE 0
  IN  t - last <= ttl

\* ensureFresh with the age taken in milliseconds and the TTL in seconds
ensureFresh_seconds(mt, glob, t, ttl) ==
  LET metaKey == globToTableSuffix(glob)
      last == IF metaKey \in DOMAIN mt THEN ParseNumber(mt[metaKey]) ELSE 0
  IN  t - last < ttl \div 1000

\* ensureFresh: TRUE when it returns, FALSE when it throws NEEDS_REFRESH
ensureFresh(mt, glob, t, ttl) ==
  LET metaKey == globToTableSuffix(glob)
      last == IF metaKey \in DOMAIN mt THEN ParseNumber(mt[metaKey]) ELSE 0
  IN  t - last < ttl

\* The INSERT loop of storeFiles: rows are inserted in order; an INSERT of a
\* path the table already holds violates the PRIMARY KEY and throws, leaving
\* the rows inserted before it.
RECURSIVE InsertAll(_, _)
InsertAll(rows, files) ==
  IF Len(files) = 0 THEN [rows |-> rows, ok |-> TRUE]
  ELSE IF files[1].path \in PathsOf(rows) THEN [rows |-> rows, ok |-> FALSE]
  ELSE InsertAll(rows \cup {Row(files[1])}, Tail(files))

\* storeFiles without the DELETE of the first batch
storeFiles_append(tb, files, glob, isFirstBatch) ==
  LET sfx == globToTableSuffix(glob)
      tb1 == ensureTablesForGlob(tb, glob)
      ins == InsertAll(tb1[sfx], files)
  IN  [tables |-> [tb1 EXCEPT ![sfx] = ins.rows], ok |-> ins.ok]

\* storeFiles that never deletes and writes with INSERT OR REPLACE
storeFiles_upsert(tb, files, glob, isFirstBatch) ==
  LET sfx == globToTableSuffix(glob)
      tb1 == ensureTablesForGlob(tb, glob)
      kept == {r \in tb1[sfx] : \A i \in 1..Len(files) : files[i].path # r.path}
  IN  [tables |-> [tb1 EXCEPT ![sfx] = InsertAll(kept, files).rows], ok |-> TRUE]

\* storeFiles(files, glob, isFirstBatch): the tables afterwards, and whether
\* it returned (ok) or threw
storeFiles(tb, files, glob, isFirstBatch) ==
  LET sfx == globToTableSuffix(glob)
      tb1 == ensureTablesForGlob(tb, glob)
      kept == IF isFirstBatch THEN {} ELSE tb1[sfx]
      ins == InsertAll(kept, files)
  IN  [tables |-> [tb1 EXCEPT ![sfx] = ins.rows], ok |-> ins.ok]

\* finalizeBatch writing one lastFetched for every glob of the actor
finalizeBatchMeta_shared(mt, glob, t) ==
  [x \in DOMAIN mt \cup {globToTableSuffix(glob)} |-> NumToString(t)]

\* finalizeBatch(glob): INSERT OR REPLACE INTO meta, then setAlarm
finalizeBatchMeta(mt, glob, t) ==
  LET metaKey == globToTableSuffix(glob)
  IN  [x \in DOMAIN mt \cup {metaKey} |-> IF x = metaKey THEN NumToString(t) ELSE mt[x]]

\* the alarm set one TTL after the run
finalizeBatchAlarm_ttl(t) == t + DEFAULT_TTL

finalizeBatchAlarm(t) == t + ONE_DAY

\* the test of alarm() with > for >=
anyActive_strict(mt, t) ==
  LET oneDayAgo == t - ONE_DAY
  IN  \E k \in DOMAIN mt : ParseNumber(mt[k]) > oneDayAgo

\* alarm(): is any lastFetched_% row at most a day old
anyActive(mt, t) ==
  LET oneDayAgo == t - ONE_DAY
  IN  \E k \in DOMAIN mt : ParseNumber(mt[k]) >= oneDayAgo

EmptyFn == [x \in {} |-> {}]

(* ---------------------------------------------------------------------- *)
(* Character order (ASCII), for ORDER BY path                              *)
(* ---------------------------------------------------------------------- *)
Ascii == <<NL, " ", "#", "*", ",", "-", ".", "/">> \o Digits \o <<":">> \o UpperCase
         \o <<"[", "]", "_">> \o LowerCase \o <<"{", "}">>

CharCode(c) == CHOOSE i \in 1..Len(Ascii) : Ascii[i] = c

RECURSIVE StrLess(_, _)
StrLess(a, b) ==
  IF Len(b) = 0 THEN FALSE
  ELSE IF Len(a) = 0 THEN TRUE
  ELSE IF a[1] = b[1] THEN StrLess(Tail(a), Tail(b))
  ELSE CharCode(a[1]) < CharCode(b[1])

\* SELECT path ... ORDER BY path
RECURSIVE OrderByPath(_)
OrderByPath(paths) ==
  IF paths = {} THEN <<>>
  ELSE LET m == CHOOSE p \in paths : \A q \in paths \ {p} : StrLess(p, q)
       IN  <<m>> \o OrderByPath(paths \ {m})


(* ---------------------------------------------------------------------- *)
(* The archives github.com may serve, and the paths requests read          *)
(* ---------------------------------------------------------------------- *)
P_a == <<"a", ".", "m", "d">>
P_c == <<"c", ".", "m", "d">>
P_l == <<"l", ".", "m", "d">>
P_k == <<"k", ".", "m", "d">>
P_x == <<"s", "/", "x", ".", "t", "s">>

Top == <<"r", "/">>

E_dir == Entry(Top \o <<"s">>, "directory", <<>>, 0)
E_a == Entry(Top \o P_a, "file", <<"h", NL, "i">>, 0)
E_x == Entry(Top \o P_x, "file", <<"k">>, 0)
E_bin == Entry(Top \o <<"b", ".", "m", "d">>, "file", <<"h", "BAD">>, 0)
E_bom == Entry(Top \o P_c, "file", <<"BOM", "h">>, 0)
\* 999,999 bytes: the largest body that is stored; 1,000,000 bytes: not stored
E_max == Entry(Top \o <<"g", ".", "m", "d">>, "file", <<"h">>, MAX_TEXT_BYTES - 2)
E_over == Entry(Top \o <<"o", ".", "m", "d">>, "file", <<"h">>, MAX_TEXT_BYTES - 1)
\* 1001 lines and 1000 lines
E_long == Entry(Top \o P_l, "file", Repeat(NL, MAX_FILE_LINES), 0)
E_1000 == Entry(Top \o P_k, "file", Repeat(NL, MAX_FILE_LINES - 1), 0)

\* f<i>.md with a body of n bytes
E_f(i, n) == Entry(Top \o <<"f">> \o NumToString(i) \o <<".", "m", "d">>, "file", <<>>, n)

A_small == <<E_dir, E_a, E_x>>
A_code == <<E_x>>
A_mixed == <<E_bin, E_bom, E_over, E_max, E_a>>
A_long == <<E_long, E_1000>>
\* 20 files of 999,999 bytes and a 21st whose size makes the first 21 files
\* exactly MAX_BATCH_SIZE, then one more file
RECURSIVE A_full(_)
A_full(n) == IF n = 0 THEN <<>> ELSE Append(A_full(n - 1), E_f(n, MAX_TEXT_BYTES - 1))

A_rest == MAX_BATCH_SIZE - 9 * (5 + MAX_TEXT_BYTES - 1) - 11 * (6 + MAX_TEXT_BYTES - 1) - 6

A_batch == A_full(20) \o <<E_f(21, A_rest), E_f(22, 1)>>
\* the same with a 21st file one byte larger
A_batch1 == A_full(20) \o <<E_f(21, A_rest + 1), E_f(22, 1)>>

\* a markdown file under a directory whose name starts with a dot, and a
\* file named README without an extension
P_hid == <<".", "h", "/", "a", ".", "m", "d">>
P_readme == <<"s", "/", "R", "E", "A", "D", "M", "E">>
E_hid == Entry(Top \o P_hid, "file", <<"h">>, 0)
E_readme == Entry(Top \o P_readme, "file", <<"h">>, 0)
A_hidden == <<E_hid, E_readme, E_x, E_a>>

ArchiveNames == {"small", "code", "mixed", "long", "batch", "batch1", "hidden"}

ArchiveOf(name) ==
  CASE name = "small" -> A_small
    [] name = "code" -> A_code
    [] name = "mixed" -> A_mixed
    [] name = "long" -> A_long
    [] name = "batch" -> A_batch
    [] name = "batch1" -> A_batch1
    [] name = "hidden" -> A_hidden
    [] OTHER -> <<>>

\* what github.com answers to the archive request
Served(name) == [ok |-> TRUE, status |-> 200, archive |-> name]
NotServed(st) == [ok |-> FALSE, status |-> st, archive |-> "none"]

\* the archive of the long files is served in SpecLong only, the archive
\* with the dot directory in SpecAdmit only
Upstreams ==
  {Served(a) : a \in ArchiveNames \ {"long", "hidden"}}
    \cup {NotServed(404), NotServed(429)}

\* what github.com answers after a push to the branch
Pushed == {Served("code"), Served("small"), NotServed(404)}

FilePaths == {P_a, P_c, P_l, P_k}
\* a path no archive holds
P_none == <<"n", ".", "m", "d">>

(* ---------------------------------------------------------------------- *)
(* populateRepo: the locals of a run and the parseTar callback             *)
(* ---------------------------------------------------------------------- *)
NoRun ==
  [archive |-> "none", idx |-> 0, currentBatch |-> <<>>, currentBatchSize |-> 0,
   batchNumber |-> 0, totalFiles |-> 0]

NewRun(archive) == [NoRun EXCEPT !.archive = archive, !.idx = 1]

EntryAt(run) == ArchiveOf(run.archive)[run.idx]

AtEnd(run) == run.idx > Len(ArchiveOf(run.archive))

\* the flush test without the size of the file that is about to be added
MustFlush_late(run, file) ==
  /\ run.currentBatchSize > MAX_BATCH_SIZE
  /\ Len(run.currentBatch) > 0

\* "currentBatchSize + fileSize > MAX_BATCH_SIZE && currentBatch.length > 0"
MustFlush(run, file) ==
  /\ run.currentBatchSize + fileSize(file) > MAX_BATCH_SIZE
  /\ Len(run.currentBatch) > 0

\* the callback putting the file at the front of the batch
Push_front(run, file) ==
  [run EXCEPT !.currentBatch = <<file>> \o @,
              !.currentBatchSize = @ + fileSize(file),
              !.idx = @ + 1]

\* "currentBatch.push(...); currentBatchSize += fileSize"
Push(run, file) ==
  [run EXCEPT !.currentBatch = Append(@, file),
              !.currentBatchSize = @ + fileSize(file),
              !.idx = @ + 1]

\* the bookkeeping after a flush without "batchNumber++"
Flushed_same(run) ==
  [run EXCEPT !.totalFiles = @ + Len(run.currentBatch),
              !.currentBatch = <<>>,
              !.currentBatchSize = 0]

\* after a storeFiles call that returned
Flushed(run) ==
  [run EXCEPT !.batchNumber = @ + 1,
              !.totalFiles = @ + Len(run.currentBatch),
              !.currentBatch = <<>>,
              !.currentBatchSize = 0]

\* The callbacks of the entries from run.idx on that touch only the locals:
\* they stop at the end of the archive or at the entry that sends a batch.
RECURSIVE Advance(_, _)
Advance(run, glob) ==
  IF AtEnd(run) THEN run
  ELSE LET file == Admit(EntryAt(run), glob)
       IN  IF file = NoFile THEN Advance([run EXCEPT !.idx = @ + 1], glob)
           ELSE IF MustFlush(run, file) THEN run
           ELSE Advance(Push(run, file), glob)

(* ---------------------------------------------------------------------- *)
(* Responses                                                               *)
(* ---------------------------------------------------------------------- *)
NoResp == [status |-> 0, type |-> "none", body |-> <<>>]

\* json(rows.map((r) => r.path))
JsonPaths(paths) == [status |-> 200, type |-> "json", body |-> paths]
\* new Response(formatted, {'content-type': 'text/plain'})
TextResponse(lines) == [status |-> 200, type |-> "text", body |-> lines]
\* notFound()
NotFoundResponse == [status |-> 404, type |-> "text", body |-> <<"Not found">>]
\* the "Request failed" response without its status option
FetchErrorResponse_ok(st) == [status |-> 200, type |-> "json", body |-> <<"Request failed">>]

\* the response of populateRepo when the archive fetch is not ok and its
\* status is not 404
FetchErrorResponse(st) == [status |-> 500, type |-> "json", body |-> <<"Request failed">>]

\* The responses of populateRepo when the archive fetch answers 404: the body
\* is the error, the suggestion and then the availableBranches (the message
\* field repeats the branch names and is left out)
RepoNotFoundResponse ==
  [status |-> 404, type |-> "json",
   body |-> <<"Repository not found",
              "Please check that the repository exists and is public, or that you have access to it.">>]

SuggestTry == "Try one of the available branches listed above."
SuggestVerify == "Please verify the branch name or check the repository directly."

\* "if (branches)" for "if (branches && branches.length > 0)"
BranchNotFoundResponse_try(branches) ==
  [status |-> 404, type |-> "json", body |-> <<"Branch not found", SuggestTry>> \o branches]

BranchNotFoundResponse(branches) ==
  [status |-> 404, type |-> "json",
   body |-> IF Len(branches) > 0
              THEN <<"Branch not found", SuggestTry>> \o branches
              ELSE <<"Branch not found", SuggestVerify>>]

\* fetchGitHubBranches (github-api.ts).  api is what api.github.com answers:
\* a status (0 when the connection fails) and the branch names of the page.
priorityNames ==
  <<"main", "master", "canary", "develop", "dev", "staging", "release",
    "production", "beta", "next">>

IsPriority(name) == name \in Range(priorityNames)
IsListed(names, name) == name \in Range(names)

\* fetchGitHubBranches that takes ten other branches whatever the number of
\* priority branches
fetchGitHubBranches_ten(api) ==
  IF api.status = 0 THEN [error |-> "NETWORK_ERROR", branches |-> <<>>]
  ELSE IF api.status = 404 THEN [error |-> "REPO_NOT_FOUND", branches |-> <<>>]
  ELSE IF api.status = 403 THEN [error |-> "RATE_LIMITED", branches |-> <<>>]
  ELSE IF api.status # 200 THEN [error |-> "API_ERROR", branches |-> <<>>]
  ELSE LET isOther(name) == ~IsPriority(name)
           isThere(name) == IsListed(api.names, name)
           priorityBranches == SelectSeq(priorityNames, isThere)
           otherBranches == SelectSeq(api.names, isOther)
       IN  [error |-> "",
            branches |-> priorityBranches
                         \o SubSeq(otherBranches, 1, Min(10, Len(otherBranches)))]

fetchGitHubBranches(api) ==
  IF api.status = 0 THEN [error |-> "NETWORK_ERROR", branches |-> <<>>]
  ELSE IF api.status = 404 THEN [error |-> "REPO_NOT_FOUND", branches |-> <<>>]
  ELSE IF api.status = 403 THEN [error |-> "RATE_LIMITED", branches |-> <<>>]
  ELSE IF api.status # 200 THEN [error |-> "API_ERROR", branches |-> <<>>]
  ELSE LET isOther(name) == ~IsPriority(name)
           isThere(name) == IsListed(api.names, name)
           priorityBranches == SelectSeq(priorityNames, isThere)
           otherBranches == SelectSeq(api.names, isOther)
           room == Max(10 - Len(priorityBranches), 0)
       IN  [error |-> "",
            branches |-> priorityBranches
                         \o SubSeq(otherBranches, 1, Min(room, Len(otherBranches)))]

branchError_branch(api) ==
  LET branchInfo == fetchGitHubBranches(api)
      shown == SubSeq(branchInfo.branches, 1, Min(10, Len(branchInfo.branches)))
  IN  BranchNotFoundResponse(shown)

\* populateRepo, "if (r.status === 404)": the response for the lookup's result
branchError(api) ==
  LET branchInfo == fetchGitHubBranches(api)
      shown == SubSeq(branchInfo.branches, 1, Min(10, Len(branchInfo.branches)))
  IN  IF branchInfo.error = "REPO_NOT_FOUND" THEN RepoNotFoundResponse
      ELSE BranchNotFoundResponse(shown)

\* the response populateRepo returns when the archive fetch is not ok
populateError(st, api) == IF st = 404 THEN branchError(api) ELSE FetchErrorResponse(st)

ApiOk(names) == [status |-> 200, names |-> names]
ApiFails(st) == [status |-> st, names |-> <<>>]

\* twelve branches, one of them a priority name that the page lists last
ManyBranches ==
  <<"b01", "b02", "b03", "b04", "b05", "b06", "b07", "b08", "b09", "b10", "b11", "main">>

\* what api.github.com answers to the branch lookup of a request: branches,
\* rate limited, or no such repository
BranchApis == {ApiOk(<<"dev", "main">>), ApiFails(403), ApiFails(404)}

\* no lookup is made
NoApi == [status |-> -1, names |-> <<>>]
\* an exception that leaves the route handler
Thrown(msg) == [status |-> 500, type |-> "thrown", body |-> <<msg>>]

RowsOf(tb, glob) ==
  IF globToTableSuffix(glob) \in DOMAIN tb THEN tb[globToTableSuffix(glob)] ELSE {}

\* getFiles after ensureFresh: SELECT path FROM files_<suffix> ORDER BY path
getFiles(tb, glob) == JsonPaths(OrderByPath(PathsOf(RowsOf(tb, glob))))

\* getFile answering an unknown path with an empty text
getFile_empty(tb, glob, filePath, showLineNumbers, start, end) ==
  LET results == {r \in RowsOf(tb, glob) : r.path = filePath}
  IN  IF results = {} THEN TextResponse(<<>>)
      ELSE LET row == CHOOSE r \in results : TRUE
           IN  TextResponse(formatFileWithLines(row.content, showLineNumbers,
                                                start, end, MAX_FILE_LINES))

\* getFile without the limit of MAX_FILE_LINES lines
getFile_unlimited(tb, glob, filePath, showLineNumbers, start, end) ==
  LET results == {r \in RowsOf(tb, glob) : r.path = filePath}
  IN  IF results = {} THEN NotFoundResponse
      ELSE LET row == CHOOSE r \in results : TRUE
           IN  TextResponse(formatFileWithLines(row.content, showLineNumbers,
                                                start, end, MAX_TEXT_BYTES))

\* getFile with "showLineNumbers ?? true"
getFile_numbered(tb, glob, filePath, showLineNumbers, start, end) ==
  LET results == {r \in RowsOf(tb, glob) : r.path = filePath}
  IN  IF results = {} THEN NotFoundResponse
      ELSE LET row == CHOOSE r \in results : TRUE
           IN  TextResponse(formatFileWithLines(row.content, TRUE, start, end,
                                                MAX_FILE_LINES))

\* getFile after ensureFresh: SELECT content ... WHERE path = ?, then format
getFile(tb, glob, filePath, showLineNumbers, start, end) ==
  LET results == {r \in RowsOf(tb, glob) : r.path = filePath}
  IN  IF results = {} THEN NotFoundResponse
      ELSE LET row == CHOOSE r \in results : TRUE
           IN  TextResponse(formatFileWithLines(row.content, showLineNumbers,
                                                start, end, MAX_FILE_LINES))

\* a character of the pad of a Text
PadChar == "~"

\* the first n characters of a Text (all of them when it has fewer)
Chars(t, n) == t.s \o Repeat(PadChar, Min(t.pad, Max(n - Len(t.s), 0)))

\* "s LIKE p" of SQLite: "%" matches any run of characters, "_" any one
\* character, every other character itself
RECURSIVE LikeAt(_, _, _, _)
LikeAt(s, i, p, j) ==
  IF j > Len(p) THEN i > Len(s)
  ELSE IF p[j] = "%"
    THEN \/ j = Len(p)
         \/ \E k \in i..(Len(s) + 1) :
              /\ \/ p[j + 1] \in {"%", "_"}
                 \/ k <= Len(s) /\ s[k] = p[j + 1]
              /\ LikeAt(s, k, p, j + 1)
  ELSE /\ i <= Len(s)
       /\ p[j] = "_" \/ p[j] = s[i]
       /\ LikeAt(s, i + 1, p, j + 1)

\* LikeAt is "s from its i-th character on LIKE p from its j-th character on",
\* both in lower case
LikeMatch(s, p) == LikeAt(ToLowerCase(s), 1, ToLowerCase(p), 1)

\* likePattern = `%${searchQuery}%`
likePattern(query) == <<"%">> \o query \o <<"%">>

\* "path LIKE ? COLLATE NOCASE"
Like(s, query) == LikeMatch(s, likePattern(query))

\* "content LIKE ? COLLATE NOCASE": a pattern taken from the query consumes
\* at most Len(query) characters of the pad outside its "%"
LikeText(t, query) == Like(Chars(t, Len(t.s) + Len(query)), query)

\* String.prototype.indexOf(q, from), 0-based, -1 when not found
IndexFrom(s, q, from) ==
  LET hits == {i \in from..(Len(s) - Len(q)) : SubSeq(s, i + 1, i + Len(q)) = q}
  IN  IF hits = {} THEN -1 ELSE CHOOSE i \in hits : \A j \in hits : i <= j

IndexOf(s, q) == IndexFrom(s, q, 0)

\* String.prototype.lastIndexOf(c, from) for one character
LastIndexOf(s, c, from) ==
  LET hits == {i \in 0..Min(from, Len(s) - 1) : s[i + 1] = c}
  IN  IF hits = {} THEN -1 ELSE CHOOSE i \in hits : \A j \in hits : i >= j

\* String.prototype.substring(a, b) for 0 <= a, 0 <= b
Substring(s, a, b) == SubSeq(s, Min(a, b) + 1, Min(Max(a, b), Len(s)))

Ellipsis == <<".", ".", ".">>

SNIPPET_LENGTH == 200

\* content.split('\n').slice(0, 3).join('\n')
FirstLines(s) ==
  LET ls == SplitLines(s)
  IN  JoinBy(SubSeq(ls, 1, Min(3, Len(ls))), NL)

\* the one element of a singleton set: a value computed once and then named
Only(S) == CHOOSE x \in S : TRUE

\* extractSnippetFromContent when the query is not in the content: the first
\* lines of the content, cut at SNIPPET_LENGTH
headSnippet(content) ==
  Only({ IF Len(lines) > SNIPPET_LENGTH
           THEN Substring(lines, 0, SNIPPET_LENGTH) \o Ellipsis
           ELSE lines
       : lines \in {FirstLines(Chars(content, SNIPPET_LENGTH + 1))} })

\* the word-boundary cleanup of extractSnippetFromContent
cleanBoundaries(s2, atStart, atEnd) ==
  Only({ Only({ IF ~atEnd /\ lastSpace > Len(s3) - 20
                  THEN Substring(s3, 0, Max(lastSpace, 0)) \o Ellipsis
                  ELSE s3
              : lastSpace \in {LastIndexOf(s3, " ", Len(s3) - 4)} })
       : s3 \in { Only({ IF ~atStart /\ firstSpace > 3 /\ firstSpace < 20
                           THEN Ellipsis \o Substring(s2, firstSpace + 1, Len(s2))
                           ELSE s2
                       : firstSpace \in {IndexFrom(s2, <<" ">>, 3)} }) } })

\* extractSnippetFromContent when the query is at index: contextRadius
\* characters on both sides, an ellipsis on each cut side
contextSnippet(content, qlen, index) ==
  LET len == TextLength(content)
      contextRadius == (SNIPPET_LENGTH - qlen) \div 2
      start == Max(0, index - contextRadius)
      end == Min(len, index + qlen + contextRadius)
  IN  Only({ cleanBoundaries(s2, start = 0, end = len)
           : s2 \in { (IF start > 0 THEN Ellipsis ELSE <<>>)
                      \o Substring(Chars(content, Max(start, end)), start, end)
                      \o (IF end < len THEN Ellipsis ELSE <<>>) } })

\* extractSnippetFromContent(content, searchQuery) of utils.ts, maxLength 200
extractSnippetFromContent(content, searchQuery) ==
  IF TextLength(content) = 0 \/ Len(searchQuery) = 0 THEN <<>>
  ELSE Only({ IF index = -1 THEN headSnippet(content)
              ELSE contextSnippet(content, Len(searchQuery), index)
            : index \in {IndexOf(ToLowerCase(Chars(content, Len(content.s) + Len(searchQuery))),
                                 ToLowerCase(searchQuery))} })

\* snippet.replace(/^\.\.\.|\.\.\.$/, ''): the regular expression has no g
\* flag, so only its first match is removed
cleanSnippet(snippet) ==
  IF StartsWith(snippet, Ellipsis) THEN SubSeq(snippet, 4, Len(snippet))
  ELSE IF EndsWith(snippet, Ellipsis) THEN SubSeq(snippet, 1, Len(snippet) - 3)
  ELSE snippet

IsSpace(c) == c \in {" ", NL}

\* String.prototype.trim
RECURSIVE Trim(_)
Trim(s) ==
  IF Len(s) = 0 THEN s
  ELSE IF IsSpace(s[1]) THEN Trim(Tail(s))
  ELSE IF IsSpace(s[Len(s)]) THEN Trim(SubSeq(s, 1, Len(s) - 1))
  ELSE s

\* s.split(/\s+/) of a trimmed string
RECURSIVE Words(_)
Words(s) ==
  IF \A i \in 1..Len(s) : ~IsSpace(s[i]) THEN <<s>>
  ELSE LET k == CHOOSE i \in 1..Len(s) :
                  IsSpace(s[i]) /\ \A j \in 1..(i - 1) : ~IsSpace(s[j])
           rest == SubSeq(s, k + 1, Len(s))
           n == CHOOSE m \in 0..Len(rest) :
                  /\ \A j \in 1..m : IsSpace(rest[j])
                  /\ m = Len(rest) \/ ~IsSpace(rest[m + 1])
       IN  <<SubSeq(s, 1, k - 1)>> \o Words(SubSeq(rest, n + 1, Len(rest)))

\* the null findLineNumberInContent returns
NoLine == 0

\* words.find((word) => content.includes(word)) and the indexOf of that word
firstWordIndex(text, clean) ==
  LET isLong(word) == Len(word) > 2
  IN  Only({ Only({ IF found = {} THEN -1
                    ELSE IndexOf(text, words[CHOOSE i \in found : \A j \in found : i <= j])
                  : found \in {{i \in 1..Len(words) : IndexOf(text, words[i]) # -1}} })
           : words \in {SelectSeq(Words(clean), isLong)} })

\* the line of the first place where the snippet, or else the first of its
\* words longer than two characters that occurs at all, is in the text
lineOfIndex(text, clean) ==
  Only({ IF index = -1 THEN NoLine ELSE Len(SplitLines(Substring(text, 0, index)))
       : index \in { Only({ IF exact # -1 THEN exact
                            ELSE firstWordIndex(text, clean)
                          : exact \in {IndexOf(text, clean)} }) } })

\* findLineNumberInContent(content, searchSnippet) of utils.ts
findLineNumberInContent(content, searchSnippet) ==
  IF TextLength(content) = 0 \/ Len(searchSnippet) = 0 THEN NoLine
  ELSE Only({ IF Len(clean) < 3 THEN NoLine
              ELSE Only({ lineOfIndex(text, clean)
                        : text \in {Chars(content, Len(content.s) + Len(clean))} })
            : clean \in {Trim(searchSnippet)} })

\* the url of a search result with start=1 when no line was found
ContentUrl_first(path, lineNumber, glob) ==
  [path |-> <<"/", "r", "e", "p", "o", "s", "/">> \o BasePath
            \o <<"/", "f", "i", "l", "e", "s", "/">> \o path,
   start |-> IF lineNumber # NoLine THEN lineNumber ELSE 1,
   glob |-> IF Len(glob) > 0 /\ glob # DEFAULT_GLOB THEN glob ELSE <<>>]

\* the url of a search result: the path under /repos/o/r/m/files/, start when
\* a line was found, glob when the request's glob is not the default one
ContentUrl(path, lineNumber, glob) ==
  [path |-> <<"/", "r", "e", "p", "o", "s", "/">> \o BasePath
            \o <<"/", "f", "i", "l", "e", "s", "/">> \o path,
   start |-> IF lineNumber # NoLine THEN lineNumber ELSE NoLine,
   glob |-> IF Len(glob) > 0 /\ glob # DEFAULT_GLOB THEN glob ELSE <<>>]

\* the SELECT of searchFiles with ENABLE_FTS = false: the paths of the rows
\* in the order of ORDER BY CASE WHEN path LIKE ? THEN 0 ELSE 1 END, path
searchRows(rows, query) ==
  LET hits == {r \in rows : Like(r.path, query) \/ LikeText(r.content, query)}
      first == {r.path : r \in {x \in hits : Like(x.path, query)}}
      rest == PathsOf(hits) \ first
  IN  OrderByPath(first) \o OrderByPath(rest)

\* rows.map((r) => ...) of searchFiles: one result per row
searchResult(row, query, glob) ==
  Only({ [contentUrl |-> ContentUrl(row.path,
                                    findLineNumberInContent(row.content, cleanSnippet(snippet)),
                                    glob),
          path |-> row.path,
          snippet |-> snippet]
       : snippet \in {extractSnippetFromContent(row.content, query)} })

NoResults == <<"No results found.">>

formatSearchResultsAsMarkdown_bare(results) == [results |-> results, text |-> <<>>]

\* formatSearchResultsAsMarkdown: the <results> wrapper with its <result>
\* elements (contentUrl, path and snippet each), or with the text "No results
\* found." when there is none
formatSearchResultsAsMarkdown(results) ==
  [results |-> results, text |-> IF Len(results) = 0 THEN NoResults ELSE <<>>]

\* searchFiles after ensureFresh, with ENABLE_FTS = false
searchFiles(tb, glob, query) ==
  Only({ Only({ [status |-> 200, type |-> "markdown",
                 body |-> formatSearchResultsAsMarkdown(
                            [i \in 1..Len(paths) |->
                               searchResult(CHOOSE r \in rows : r.path = paths[i], query, glob)])]
              : paths \in {searchRows(rows, query)} })
       : rows \in {RowsOf(tb, glob)} })

\* the query of the search requests
Q_h == <<"h">>

(* ---------------------------------------------------------------------- *)
(* State                                                                   *)
(* ---------------------------------------------------------------------- *)
Reqs == 1..MaxReq

\* the first state is later than one day after the epoch of the clock
Epoch == ONE_DAY + DEFAULT_TTL

NoHist == [valid |-> FALSE, failed |-> FALSE, archive |-> "none", glob |-> <<>>, rows |-> {}]

IdleReq ==
  [pc |-> "idle", kind |-> "none", force |-> FALSE, glob |-> <<>>, path |-> <<>>,
   stage |-> "try", run |-> NoRun, resp |-> NoResp,
   \* history of the request, read by the properties only
   pops |-> 0, reads |-> 0, calls |-> <<>>, finals |-> 0,
   alone |-> TRUE, twice |-> FALSE, last0 |-> 0, api |-> NoApi,
   \* query parameters of the files/* route
   showLineNumbers |-> FALSE, start |-> Undefined, end |-> Undefined]

InitWith(ups, globs) ==
  /\ now = Epoch
  /\ ticks = 0
  /\ upstream \in ups
  /\ pushes = 0
  /\ tables = EmptyFn
  /\ meta = EmptyFn
  /\ alarm = NoAlarm
  /\ part \in {getCacheKey(g) : g \in globs}
  /\ reqs = [r \in Reqs |-> IdleReq]
  /\ hist = [run |-> NoHist, prev |-> NoHist]

InRun(q) == q.pc \in {"parse", "last", "finalize"}

Active(q) == q.pc \notin {"idle", "done"}

\* The other requests that are inside a run, or between their run and the
\* read that follows it, are no longer alone with the partition.
Disturb(rq, r) ==
  [x \in Reqs |->
     IF x # r /\ rq[x].pops > 0 /\ rq[x].pc # "done" /\ rq[x].alone
       THEN [rq[x] EXCEPT !.alone = FALSE] ELSE rq[x]]

\* populateRepo without the flush of the remaining files
PcOf_noLast(run) == IF ~AtEnd(run) THEN "parse" ELSE "finalize"

\* where populateRepo stands after the callbacks that touch only its locals
PcOf(run) ==
  IF ~AtEnd(run) THEN "parse"
  ELSE IF Len(run.currentBatch) > 0 THEN "last"
  ELSE "finalize"

\* the sum over the files of a batch of path length + content length
RECURSIVE BatchBytes(_)
BatchBytes(batch) ==
  IF Len(batch) = 0 THEN 0 ELSE fileSize(batch[1]) + BatchBytes(Tail(batch))

\* the record of a storeFiles call: its arguments and whether it returned
Call(run, isFirstBatch, ok) ==
  [isFirstBatch |-> isFirstBatch, bytes |-> BatchBytes(run.currentBatch),
   files |-> Len(run.currentBatch), ok |-> ok]

\* The clock: an action that reads Date.now() finds it advanced by d
Deltas == {DEFAULT_TTL - 1, DEFAULT_TTL, DEFAULT_TTL + 1, ONE_DAY, ONE_DAY + 1}

Clock(d) ==
  /\ d = 0 \/ (d \in Deltas /\ ticks < MaxTicks)
  /\ now' = now + d
  /\ ticks' = IF d = 0 THEN ticks ELSE ticks + 1

(* ---------------------------------------------------------------------- *)
(* The route handlers: GET .../files, .../files/* and .../search/*         *)
(* ---------------------------------------------------------------------- *)
\* a request whose response has been sent
GoneReq == [IdleReq EXCEPT !.pc = "done"]

\* A request enters its handler: with force it populates first, inside the
\* try block.  The records of the requests answered before it are dropped.
Arrive(r, force, glob, solo) ==
  /\ reqs[r].pc = "idle"
  /\ \A x \in Reqs : x < r => reqs[x].pc # "idle"
  /\ solo => \A x \in Reqs : ~Active(reqs[x])
  /\ getCacheKey(glob) = part
  /\ reqs' = [x \in Reqs |->
       IF x = r
         THEN [reqs[r] EXCEPT !.pc = IF force THEN "fetch" ELSE "read",
                              !.force = force, !.glob = glob]
         ELSE IF reqs[x].pc = "done" THEN GoneReq ELSE reqs[x]]
  /\ UNCHANGED <<now, ticks, upstream, pushes, tables, meta, alarm, part, hist>>

\* a handler that populates again whenever the read reports NEEDS_REFRESH
onNeedsRefresh_again(q) == [q EXCEPT !.pc = "fetch", !.stage = "catch"]

\* The handler after NEEDS_REFRESH: thrown inside the try block it enters
\* the catch block, which populates and reads again; thrown by that second
\* read it leaves the handler
onNeedsRefresh(q) ==
  IF q.stage = "try"
    THEN [q EXCEPT !.pc = "fetch", !.stage = "catch"]
    ELSE [q EXCEPT !.pc = "done", !.resp = Thrown("NEEDS_REFRESH")]

\* files/* handler with a default window of 51 lines
finalEnd_51(start, end) == IF start # Undefined /\ end = Undefined THEN start + 50 ELSE end

\* files/* handler: "If only start is provided, default to showing 50 lines"
finalEnd(start, end) == IF start # Undefined /\ end = Undefined THEN start + 49 ELSE end

\* stub.getFiles / stub.getFile / stub.searchFiles: ensureFresh, then the
\* query.  The route (kind) and its argument (the file path or the search
\* query) take part in the query only, so they are drawn when it is made; a
\* read that reports NEEDS_REFRESH is the same step for every route.
ReadWith(r, d, kind, arg, showLineNumbers, start, end) ==
  LET q == reqs[r]
      fresh == ensureFresh(meta, q.glob, now', DEFAULT_TTL)
      tb == ensureTablesForGlob(tables, q.glob)
      answer == CASE kind = "files" -> getFiles(tb, q.glob)
                  [] kind = "file" -> getFile(tb, q.glob, arg, showLineNumbers,
                                              start, finalEnd(start, end))
                  [] OTHER -> searchFiles(tb, q.glob, arg)
      seen == [q EXCEPT !.reads = @ + 1]
  IN  /\ q.pc = "read"
      /\ Clock(d)
      /\ IF fresh
           THEN /\ tables' = tb
                /\ reqs' = [reqs EXCEPT ![r] =
                     [seen EXCEPT !.pc = "done", !.resp = answer,
                                  !.kind = kind, !.path = arg,
                                  !.showLineNumbers = showLineNumbers,
                                  !.start = start, !.end = end]]
           ELSE /\ tables' = tables
                /\ kind = "files"
                /\ reqs' = [reqs EXCEPT ![r] = onNeedsRefresh(seen)]
      /\ UNCHANGED <<upstream, pushes, meta, alarm, part, hist>>

\* a read of a request without showLineNumbers, start and end
Read(r, d, kind, arg) == ReadWith(r, d, kind, arg, FALSE, Undefined, Undefined)

\* populateRepo up to its first storeFiles call: the archive fetch (u is what
\* github.com answers), and the callbacks that only fill the first batch
Fetch(r, u) ==
  LET q == reqs[r]
      metaKey == globToTableSuffix(q.glob)
      started == [q EXCEPT !.pops = @ + 1, !.alone = TRUE, !.calls = <<>>,
                           !.last0 = IF metaKey \in DOMAIN meta
                                       THEN ParseNumber(meta[metaKey]) ELSE 0,
                           !.twice = /\ hist.run.valid
                                     /\ u.ok
                                     /\ hist.run.archive = u.archive
                                     /\ hist.run.glob = q.glob
                                     /\ hist.run.rows = RowsOf(tables, q.glob)]
      run == Advance(NewRun(u.archive), q.glob)
  IN  /\ q.pc = "fetch"
      /\ \/ u = upstream /\ UNCHANGED <<upstream, pushes>>
         \/ /\ u # upstream
            /\ pushes < MaxPushes
            /\ u \in Pushed
            /\ upstream' = u
            /\ pushes' = pushes + 1
      /\ \E api \in (IF u.status = 404 THEN BranchApis ELSE {NoApi}) :
           reqs' = [reqs EXCEPT ![r] =
             IF u.ok
               THEN [started EXCEPT !.run = run, !.pc = PcOf(run)]
               ELSE [started EXCEPT !.pc = "done", !.last0 = 0,
                                    !.resp = populateError(u.status, api)]]
      /\ UNCHANGED <<now, ticks, tables, meta, alarm, part, hist>>

\* parseTar rejects: the archive stream breaks (the connection drops, or the
\* gzip data is corrupt) before its end.  The exception leaves populateRepo
\* and the handler; the batch that was being filled is lost with the locals.
\* The entries read since the last storeFiles call changed only the locals,
\* so the stream may break at any of them with this one outcome.
StreamError(r) ==
  LET q == reqs[r]
  IN  /\ q.pc \in {"parse", "last"}
      /\ reqs' = [reqs EXCEPT ![r] =
           [q EXCEPT !.pc = "done", !.last0 = 0, !.resp = Thrown("parseTar")]]
      /\ hist' = IF q.run.batchNumber > 0
                   THEN [run |-> [valid |-> FALSE, failed |-> TRUE,
                                  archive |-> q.run.archive, glob |-> q.glob,
                                  rows |-> RowsOf(tables, q.glob)],
                         prev |-> hist.run]
                   ELSE hist
      /\ UNCHANGED <<now, ticks, upstream, pushes, tables, meta, alarm, part>>

\* The callback of the entry that finds the batch full: it sends the batch
\* (storeFiles) and then adds the entry to a new batch.  The call is inside
\* the callback's try block, so when it throws the catch block swallows the
\* exception and the entry is skipped.  The callbacks that follow and touch
\* only the locals are part of the step.
Parse(r) ==
  LET q == reqs[r]
      file == Admit(EntryAt(q.run), q.glob)
      isFirstBatch == q.run.batchNumber = 0
      res == storeFiles(tables, q.run.currentBatch, q.glob, isFirstBatch)
      after == IF res.ok THEN Push(Flushed(q.run), file)
               ELSE [q.run EXCEPT !.idx = @ + 1]
      run == Advance(after, q.glob)
  IN  /\ q.pc = "parse"
      /\ tables' = res.tables
      /\ reqs' = [Disturb(reqs, r) EXCEPT ![r] =
           [q EXCEPT !.run = run, !.pc = PcOf(run),
                     !.calls = Append(@, Call(q.run, isFirstBatch, res.ok))]]
      /\ UNCHANGED <<now, ticks, upstream, pushes, meta, alarm, part, hist>>

\* "Send any remaining files in the last batch": outside the callback, so an
\* exception of storeFiles leaves populateRepo and the handler
Last(r) ==
  LET q == reqs[r]
      isFirstBatch == q.run.batchNumber = 0
      res == storeFiles(tables, q.run.currentBatch, q.glob, isFirstBatch)
      called == [q EXCEPT !.calls = Append(@, Call(q.run, isFirstBatch, res.ok))]
  IN  /\ q.pc = "last"
      /\ tables' = res.tables
      /\ reqs' = [Disturb(reqs, r) EXCEPT ![r] =
           IF res.ok
             THEN [called EXCEPT !.pc = "finalize",
                                 !.run.totalFiles = @ + Len(q.run.currentBatch)]
             ELSE [called EXCEPT !.pc = "done", !.last0 = 0, !.resp = Thrown("storeFiles")]]
      /\ UNCHANGED <<now, ticks, upstream, pushes, meta, alarm, part, hist>>

\* stub.storeFiles rejects without having run in the actor (the Durable
\* Object is overloaded or was reset, or the call is over the size limit of
\* one call) while the callback sends a full batch.  The call is inside the
\* callback's try block: the catch block swallows the exception, the entry
\* that found the batch full is skipped, and the batch and batchNumber stay
\* as they were.
ParseThrows(r) ==
  LET q == reqs[r]
      isFirstBatch == q.run.batchNumber = 0
      run == Advance([q.run EXCEPT !.idx = @ + 1], q.glob)
  IN  /\ q.pc = "parse"
      /\ reqs' = [reqs EXCEPT ![r] =
           [q EXCEPT !.run = run, !.pc = PcOf(run),
                     !.calls = Append(@, Call(q.run, isFirstBatch, FALSE))]]
      /\ UNCHANGED <<now, ticks, upstream, pushes, tables, meta, alarm, part, hist>>

\* stub.storeFiles rejects without having run in the actor while populateRepo
\* sends the remaining files: the exception leaves populateRepo and the handler
LastThrows(r) ==
  LET q == reqs[r]
      isFirstBatch == q.run.batchNumber = 0
  IN  /\ q.pc = "last"
      /\ reqs' = [reqs EXCEPT ![r] =
           [q EXCEPT !.pc = "done", !.last0 = 0, !.resp = Thrown("storeFiles"),
                     !.calls = Append(@, Call(q.run, isFirstBatch, FALSE))]]
      /\ UNCHANGED <<now, ticks, upstream, pushes, tables, meta, alarm, part, hist>>

\* stub.finalizeBatch(glob); populateRepo returns null and the handler reads
Finalize(r, d) ==
  LET q == reqs[r]
      rows == RowsOf(tables, q.glob)
  IN  /\ q.pc = "finalize"
      /\ Clock(d)
      /\ meta' = finalizeBatchMeta(meta, q.glob, now')
      /\ alarm' = finalizeBatchAlarm(now')
      /\ reqs' = [reqs EXCEPT ![r] = [q EXCEPT !.pc = "read", !.finals = @ + 1, !.last0 = 0]]
      /\ hist' = [run |-> IF q.alone
                    THEN [valid |-> TRUE, failed |-> FALSE, archive |-> q.run.archive,
                          glob |-> q.glob, rows |-> rows]
                    ELSE NoHist,
                  prev |-> hist.run]
      /\ UNCHANGED <<upstream, pushes, tables, part>>

(* ---------------------------------------------------------------------- *)
(* The alarm handler                                                       *)
(* ---------------------------------------------------------------------- *)
\* the body of alarm() without "DELETE FROM meta"
alarmStorage_keepMeta ==
  /\ now' >= alarm
  /\ IF ~anyActive(meta, now')
       THEN /\ tables' = EmptyFn
            /\ alarm' = NoAlarm
            /\ hist' = [run |-> NoHist, prev |-> NoHist]
            /\ UNCHANGED meta
       ELSE /\ alarm' = now' + ONE_DAY
            /\ UNCHANGED <<tables, meta, hist>>

\* the body of alarm(), at or after the scheduled time: DROP TABLE for every
\* files_ table, DELETE FROM meta and deleteAlarm, or setAlarm
alarmStorage ==
  /\ now' >= alarm
  /\ IF ~anyActive(meta, now')
       THEN /\ tables' = EmptyFn
            /\ meta' = EmptyFn
            /\ alarm' = NoAlarm
            /\ hist' = [run |-> NoHist, prev |-> NoHist]
       ELSE /\ alarm' = now' + ONE_DAY
            /\ UNCHANGED <<tables, meta, hist>>

\* alarm(): runs at or after the scheduled time
Alarm(d) ==
  /\ alarm # NoAlarm
  /\ Clock(d)
  /\ alarmStorage
  /\ reqs' = IF ~anyActive(meta, now') THEN Disturb(reqs, 0) ELSE reqs
  /\ UNCHANGED <<upstream, pushes, part>>

Steps == {0} \cup Deltas

\* The paths requests read: those of the sample that the partition holds
\* (every other path is answered as P_none is)
ReadPaths(glob) == (FilePaths \cap PathsOf(RowsOf(tables, glob))) \cup {P_none}

\* One request at a time; github.com answers with any archive or error
Init == InitWith(Upstreams, {DEFAULT_GLOB}) \/ InitWith({Served("small")}, {ALL_GLOB})

Next ==
  \/ \E r \in Reqs, force \in BOOLEAN, glob \in Globs : Arrive(r, force, glob, TRUE)
  \/ \E r \in Reqs, d \in Steps :
       \/ Read(r, d, "files", <<>>)
       \/ \E path \in ReadPaths(reqs[r].glob) : Read(r, d, "file", path)
       \/ Read(r, d, "search", Q_h)
  \/ \E r \in Reqs, u \in Upstreams : Fetch(r, u)
  \/ \E r \in Reqs : Parse(r)
  \/ \E r \in Reqs : Last(r)
  \/ \E r \in Reqs, d \in Steps : Finalize(r, d)
  \/ \E d \in Steps : Alarm(d)

Spec == Init /\ [][Next]_vars

\* The branch holds files of MAX_FILE_LINES lines and more, or files that are
\* not stored as they are served; every run is one batch
LongUpstreams == {Served("long"), Served("mixed")}

InitLong == InitWith(LongUpstreams, {DEFAULT_GLOB})

NextLong ==
  \/ \E r \in Reqs, force \in BOOLEAN, glob \in Globs : Arrive(r, force, glob, TRUE)
  \/ \E r \in Reqs, d \in Steps :
       \/ Read(r, d, "files", <<>>)
       \/ \E path \in ReadPaths(reqs[r].glob) : Read(r, d, "file", path)
       \/ Read(r, d, "search", Q_h)
  \/ \E r \in Reqs, u \in Upstreams \cup LongUpstreams : Fetch(r, u)
  \/ \E r \in Reqs : Last(r)
  \/ \E r \in Reqs, d \in Steps : Finalize(r, d)
  \/ \E d \in Steps : Alarm(d)

SpecLong == InitLong /\ [][NextLong]_vars

\* The branch holds a file under a dot directory and a README without an
\* extension; the partitions of the default glob and of the wildcard glob
HiddenUpstreams == {Served("hidden")}

InitAdmit == InitWith(HiddenUpstreams, {DEFAULT_GLOB, ALL_GLOB})

NextAdmit ==
  \/ \E r \in Reqs, force \in BOOLEAN, glob \in Globs : Arrive(r, force, glob, TRUE)
  \/ \E r \in Reqs, d \in Steps :
       \/ Read(r, d, "files", <<>>)
       \/ \E path \in ReadPaths(reqs[r].glob) : Read(r, d, "file", path)
       \/ Read(r, d, "search", Q_h)
  \/ \E r \in Reqs, u \in Upstreams \cup HiddenUpstreams : Fetch(r, u)
  \/ \E r \in Reqs : Last(r)
  \/ \E r \in Reqs, d \in Steps : Finalize(r, d)
  \/ \E d \in Steps : Alarm(d)

SpecAdmit == InitAdmit /\ [][NextAdmit]_vars

\* One request at a time, with archive streams that may break before their
\* end
InitFault == InitWith({Served("batch")}, {DEFAULT_GLOB})

NextFault ==
  \/ \E r \in Reqs, force \in BOOLEAN, glob \in Globs : Arrive(r, force, glob, TRUE)
  \/ \E r \in Reqs, d \in Steps :
       \/ Read(r, d, "files", <<>>)
       \/ \E path \in ReadPaths(reqs[r].glob) : Read(r, d, "file", path)
       \/ Read(r, d, "search", Q_h)
  \/ \E r \in Reqs, u \in Upstreams : Fetch(r, u)
  \/ \E r \in Reqs : Parse(r)
  \/ \E r \in Reqs : Last(r)
  \/ \E r \in Reqs : StreamError(r)
  \/ \E r \in Reqs, d \in Steps : Finalize(r, d)
  \/ \E d \in Steps : Alarm(d)

SpecFault == InitFault /\ [][NextFault]_vars

\* One request at a time, with storeFiles calls that may be rejected
InitFlush == InitWith({Served("batch")}, {DEFAULT_GLOB})

NextFlush ==
  \/ \E r \in Reqs, force \in BOOLEAN, glob \in Globs : Arrive(r, force, glob, TRUE)
  \/ \E r \in Reqs, d \in Steps : Read(r, d, "files", <<>>)
  \/ \E r \in Reqs, u \in Upstreams : Fetch(r, u)
  \/ \E r \in Reqs : Parse(r)
  \/ \E r \in Reqs : ParseThrows(r)
  \/ \E r \in Reqs : Last(r)
  \/ \E r \in Reqs : LastThrows(r)
  \/ \E r \in Reqs, d \in Steps : Finalize(r, d)
  \/ \E d \in Steps : Alarm(d)

SpecFlush == InitFlush /\ [][NextFlush]_vars

\* One request at a time to the partition that the globs G_lower and G_upper
\* share.  Each of these globs admits one path, so no run fills a batch and
\* the callback never calls storeFiles (Parse).
InitGlob == InitWith({Served("small")}, {G_lower})

NextGlob ==
  \/ \E r \in Reqs, force \in BOOLEAN, glob \in {G_lower, G_upper} : Arrive(r, force, glob, TRUE)
  \/ \E r \in Reqs, d \in Steps :
       \/ Read(r, d, "files", <<>>)
       \/ \E path \in ReadPaths(reqs[r].glob) : Read(r, d, "file", path)
       \/ Read(r, d, "search", Q_h)
  \/ \E r \in Reqs, u \in Upstreams : Fetch(r, u)
  \/ \E r \in Reqs : Last(r)
  \/ \E r \in Reqs, d \in Steps : Finalize(r, d)
  \/ \E d \in Steps : Alarm(d)

SpecGlob == InitGlob /\ [][NextGlob]_vars

\* Concurrent requests for the file list of the default partition, with no
\* push to the branch; the clock is seen to advance by the alarm handler only
InitRace == InitWith({Served("small"), Served("batch1"), NotServed(500)}, {DEFAULT_GLOB})

NextRace ==
  \/ \E r \in Reqs, force \in BOOLEAN : Arrive(r, force, DEFAULT_GLOB, FALSE)
  \/ \E r \in Reqs : Read(r, 0, "files", <<>>)
  \/ \E r \in Reqs : Fetch(r, upstream)
  \/ \E r \in Reqs : Parse(r)
  \/ \E r \in Reqs : Last(r)
  \/ \E r \in Reqs : Finalize(r, 0)
  \/ \E d \in Steps : Alarm(d)

SpecRace == InitRace /\ [][NextRace]_vars

(* ---------------------------------------------------------------------- *)
(* The actor by itself                                                     *)
(* ---------------------------------------------------------------------- *)
\* The public methods of RepoCache called directly, in any order and with any
\* glob, as a caller holding the stub can: one Durable Object then keeps
\* several glob signatures.  reqs[1] records the call that was made last.
MaxActorTicks == 2

ActorGlobs == {DEFAULT_GLOB, ALL_GLOB}

\* the batches the caller passes to storeFiles
ActorBatches == {<<Admit(E_a, ALL_GLOB)>>, <<Admit(E_x, ALL_GLOB)>>}

ActorClock(d) ==
  /\ d = 0 \/ (d \in Deltas /\ ticks < MaxActorTicks)
  /\ now' = now + d
  /\ ticks' = IF d = 0 THEN ticks ELSE ticks + 1

Called(kind, glob, resp) ==
  [reqs EXCEPT ![1] = [IdleReq EXCEPT !.pc = "done", !.kind = kind,
                                      !.glob = glob, !.resp = resp]]

\* json({success: true, ...})
SuccessResponse == [status |-> 200, type |-> "json", body |-> <<"success">>]

CallStoreFiles(files, glob, isFirstBatch) ==
  LET res == storeFiles(tables, files, glob, isFirstBatch)
  IN  /\ tables' = res.tables
      /\ reqs' = Called("storeFiles", glob,
                        IF res.ok THEN SuccessResponse ELSE Thrown("storeFiles"))
      /\ UNCHANGED <<now, ticks, upstream, pushes, meta, alarm, part, hist>>

CallFinalizeBatch(glob, d) ==
  /\ ActorClock(d)
  /\ meta' = finalizeBatchMeta(meta, glob, now')
  /\ alarm' = finalizeBatchAlarm(now')
  /\ reqs' = Called("finalizeBatch", glob, SuccessResponse)
  /\ UNCHANGED <<upstream, pushes, tables, part, hist>>

CallGetFiles(glob, d) ==
  LET tb == ensureTablesForGlob(tables, glob)
  IN  /\ ActorClock(d)
      /\ IF ensureFresh(meta, glob, now', DEFAULT_TTL)
           THEN /\ tables' = tb
                /\ reqs' = Called("getFiles", glob, getFiles(tb, glob))
           ELSE /\ tables' = tables
                /\ reqs' = Called("getFiles", glob, Thrown("NEEDS_REFRESH"))
      /\ UNCHANGED <<upstream, pushes, meta, alarm, part, hist>>

CallAlarm(d) ==
  /\ alarm # NoAlarm
  /\ ActorClock(d)
  /\ alarmStorage
  /\ reqs' = Called("alarm", <<>>, NoResp)
  /\ UNCHANGED <<upstream, pushes, part>>

InitActor == InitWith({Served("small")}, {DEFAULT_GLOB})

NextActor ==
  \/ \E files \in ActorBatches, glob \in ActorGlobs, isFirstBatch \in BOOLEAN :
       CallStoreFiles(files, glob, isFirstBatch)
  \/ \E glob \in ActorGlobs, d \in Steps : CallFinalizeBatch(glob, d)
  \/ \E glob \in ActorGlobs, d \in Steps : CallGetFiles(glob, d)
  \/ \E d \in Steps : CallAlarm(d)

SpecActor == InitActor /\ [][NextActor]_vars

(* ---------------------------------------------------------------------- *)
(* The actor and its alarm, as time goes on                                *)
(* ---------------------------------------------------------------------- *)
\* The platform runs alarm() at the scheduled time or later, and runs it
\* again until it has returned: an armed alarm is always delivered.  Time is
\* not bounded here; the runs that finalize are counted (in ticks) and
\* bounded, so from some point on no run finalizes.
MaxRuns == 2

\* how late, in milliseconds, the platform delivers an alarm
Lateness == {0, 1}

\* the time between two calls of finalizeBatch
RunGaps == {1, ONE_DAY}

\* finalizeBatch(glob), called d milliseconds after the last call
FinalizeRun(glob, d) ==
  /\ ticks < MaxRuns
  /\ ticks' = ticks + 1
  /\ now' = now + d
  /\ meta' = finalizeBatchMeta(meta, glob, now')
  /\ alarm' = finalizeBatchAlarm(now')
  /\ reqs' = Called("finalizeBatch", glob, SuccessResponse)
  /\ UNCHANGED <<upstream, pushes, tables, part, hist>>

\* alarm(), run by the platform when the scheduled time has come
AlarmDue(late) ==
  /\ alarm # NoAlarm
  /\ now' = Max(now, alarm) + late
  /\ alarmStorage
  /\ reqs' = Called("alarm", <<>>, NoResp)
  /\ UNCHANGED <<ticks, upstream, pushes, part>>

NextEvict ==
  \/ \E glob \in ActorGlobs : CallStoreFiles(<<Admit(E_a, ALL_GLOB)>>, glob, TRUE)
  \/ \E glob \in ActorGlobs, d \in RunGaps : FinalizeRun(glob, d)
  \/ \E glob \in ActorGlobs : CallGetFiles(glob, 0)
  \/ \E late \in Lateness : AlarmDue(late)

SpecEvict ==
  InitActor /\ [][NextEvict]_vars /\ WF_vars(\E late \in Lateness : AlarmDue(late))

(* ---------------------------------------------------------------------- *)
(* The branch lookup by itself                                             *)
(* ---------------------------------------------------------------------- *)
\* A request whose archive fetch was answered 404, for every answer of
\* api.github.com out of LookupApis: pages of up to MaxBranches distinct
\* branch names, the page of twelve, and the failures.
MaxBranches == 3

BranchNames == {"main", "dev", "b01", "b02", "zz"}

Pages ==
  {p \in UNION {[1..n -> BranchNames] : n \in 0..MaxBranches} :
     \A i, j \in DOMAIN p : i # j => p[i] # p[j]}

LookupApis ==
  {ApiOk(p) : p \in Pages} \cup {ApiOk(ManyBranches)}
  \cup {ApiFails(st) : st \in {404, 403, 500, 0}}

InitLookup ==
  /\ now = Epoch
  /\ ticks = 0
  /\ upstream = NotServed(404)
  /\ pushes = 0
  /\ tables = EmptyFn
  /\ meta = EmptyFn
  /\ alarm = NoAlarm
  /\ part = getCacheKey(DEFAULT_GLOB)
  /\ \E api \in LookupApis :
       reqs = [r \in Reqs |->
                 IF r = 1 THEN [IdleReq EXCEPT !.pc = "fetch", !.glob = DEFAULT_GLOB,
                                               !.api = api]
                 ELSE IdleReq]
  /\ hist = [run |-> NoHist, prev |-> NoHist]

\* populateRepo from the answer of the lookup to its return
Lookup ==
  /\ reqs[1].pc = "fetch"
  /\ reqs[1].api # NoApi
  /\ reqs' = [reqs EXCEPT ![1] =
       [@ EXCEPT !.pc = "done", !.pops = @ + 1,
                 !.resp = populateError(upstream.status, reqs[1].api)]]
  /\ UNCHANGED <<now, ticks, upstream, pushes, tables, meta, alarm, part, hist>>

NextLookup == Lookup

SpecLookup == InitLookup /\ [][NextLookup]_vars

\* The search as a function of the rows a partition holds: the partition is
\* fresh, a request is at its read, and the query is drawn when it is made
\* the query "needle" is on the third line
S_lines ==
  [path |-> <<"n", "o", "t", "e", "s", ".", "m", "d">>,
   content |-> Line(<<"a", NL, "b", NL, "n", "e", "e", "d", "l", "e", " ", "h", "e", "r",
      "e", NL, "c">>)]

\* the file of "search(Hello)" of the worker tests
S_readme ==
  [path |-> <<"R", "E", "A", "D", "M", "E", ".", "m", "d">>,
   content |-> Line(<<"#", " ", "T", "i", "t", "l", "e", NL, "H", "e", "l", "l", "o">>)]

\* a path with a letter after its "a"
S_ab ==
  [path |-> <<"a", "b", ".", "m", "d">>,
   content |-> Line(<<"x">>)]

\* a path with "_" in it, and no content
S_under ==
  [path |-> <<"a", "_", "b", ".", "m", "d">>,
   content |-> Line(<<>>)]

\* "needle" after 100 characters without a space and before 200 more
S_long ==
  [path |-> <<"l", "o", "n", "g", ".", "m", "d">>,
   content |-> [s |-> Repeat("x", 100) \o <<"n", "e", "e", "d", "l", "e">>, pad |-> 200]]

\* the query in the path only, the content is two characters long
S_needle ==
  [path |-> <<"n", "e", "e", "d", "l", "e", ".", "m", "d">>,
   content |-> Line(<<"a", "b">>)]

\* the query in the path and on the second line
S_upper ==
  [path |-> <<"d", "o", "c", "s", "/", "N", "e", "e", "d", "l", "e", ".", "m", "d">>,
   content |-> Line(<<"h", "e", "l", "l", "o", " ", "w", "o", "r", "l", "d", NL, "l", "i",
      "n", "e", " ", "t", "w", "o", " ", "h", "a", "s", " ", "n", "e",
      "e", "d", "l", "e">>)]

\* "a_" in the content only, and a path before that of S_under
S_lit ==
  [path |-> <<"a", ".", "m", "d">>,
   content |-> Line(<<"a", "_">>)]

SearchRows == {S_lines, S_readme, S_ab, S_under, S_long, S_needle, S_upper, S_lit}

\* the number of rows of the partition
MaxStored == 3

Q_needle == <<"n", "e", "e", "d", "l", "e">>
Q_NEEDLE == <<"N", "E", "E", "D", "L", "E">>
Q_Hello == <<"H", "e", "l", "l", "o">>
Q_any == <<"a", "_">>
Q_md == <<"m", "d">>
Q_none == <<"z", "z">>
Q_x == <<"x">>

Queries == {Q_needle, Q_NEEDLE, Q_Hello, Q_any, Q_md, Q_none, Q_x, Q_h}

InitSearch ==
  /\ now = Epoch
  /\ ticks = 0
  /\ upstream = NotServed(404)
  /\ pushes = 0
  /\ \E stored \in SUBSET SearchRows :
       /\ Cardinality(stored) <= MaxStored
       /\ tables = [x \in {globToTableSuffix(DEFAULT_GLOB)} |-> stored]
  /\ meta = finalizeBatchMeta(EmptyFn, DEFAULT_GLOB, Epoch)
  /\ alarm = finalizeBatchAlarm(Epoch)
  /\ part = getCacheKey(DEFAULT_GLOB)
  /\ reqs = [r \in Reqs |->
               IF r = 1 THEN [IdleReq EXCEPT !.pc = "read", !.glob = DEFAULT_GLOB]
               ELSE IdleReq]
  /\ hist = [run |-> NoHist, prev |-> NoHist]

\* stub.searchFiles({query}) of the search/* handler
Search(query) == Read(1, 0, "search", query)

NextSearch == \E query \in Queries : Search(query)

SpecSearch == InitSearch /\ [][NextSearch]_vars

\* The files/* route as a function of its query parameters: the partition is
\* fresh and holds one file, a request is at its read

\* the lines "l<a>" to "l<b>", joined by "\n"
RECURSIVE LinesFrom(_, _)
LinesFrom(a, b) ==
  IF a = b THEN <<"l">> \o NumToString(a)
  ELSE LinesFrom(a, (a + b) \div 2) \o <<NL>> \o LinesFrom((a + b) \div 2 + 1, b)

\* a text of n lines, the i-th being "l<i>"
LinesText(n) == Line(LinesFrom(1, n))

\* f<n>.md, a file of n lines
F_path(n) == <<"f">> \o NumToString(n) \o <<".", "m", "d">>
F_row(n) == [path |-> F_path(n), content |-> LinesText(n)]

\* the numbers of lines of the sample files: CODE_OF_CONDUCT.md of the tests
\* has 54, the others are around MAX_FILE_LINES
FileLengths == {1, 54, MAX_FILE_LINES, MAX_FILE_LINES + 1, MAX_FILE_LINES + 3}

FileRows == {F_row(n) : n \in FileLengths}

\* parseInt(query.start) and parseInt(query.end), Undefined when absent
Starts == {Undefined, -3, 0, 1, 6, 20, 54, 60}
Ends == {Undefined, -1, 0, 1, 12, 54, 60, MAX_FILE_LINES}

InitFile ==
  /\ now = Epoch
  /\ ticks = 0
  /\ upstream = NotServed(404)
  /\ pushes = 0
  /\ \E row \in FileRows : tables = [x \in {globToTableSuffix(DEFAULT_GLOB)} |-> {row}]
  /\ meta = finalizeBatchMeta(EmptyFn, DEFAULT_GLOB, Epoch)
  /\ alarm = finalizeBatchAlarm(Epoch)
  /\ part = getCacheKey(DEFAULT_GLOB)
  /\ reqs = [r \in Reqs |->
               IF r = 1 THEN [IdleReq EXCEPT !.pc = "read", !.glob = DEFAULT_GLOB]
               ELSE IdleReq]
  /\ hist = [run |-> NoHist, prev |-> NoHist]

\* the files/* handler from its query parameters to the answer of stub.getFile
GetFile(path, showLineNumbers, start, end) ==
  ReadWith(1, 0, "file", path, showLineNumbers, start, end)

NextFile ==
  \E path \in PathsOf(RowsOf(tables, DEFAULT_GLOB)) \cup {P_none},
     showLineNumbers \in BOOLEAN, start \in Starts, end \in Ends :
    GetFile(path, showLineNumbers, start, end)

SpecFile == InitFile /\ [][NextFile]_vars

(* ---------------------------------------------------------------------- *)
(* Properties                                                              *)
(* ---------------------------------------------------------------------- *)
\* lastFetched_<suffix> of the glob, an absent row read as 0
LastFetched(glob) ==
  IF globToTableSuffix(glob) \in DOMAIN meta
    THEN ParseNumber(meta[globToTableSuffix(glob)]) ELSE 0

\* the bytes of an archive entry read as text
RawText(ent) == [s |-> ent.b, pad |-> ent.pad]

\* the rows of the admitted entries of an archive
AdmittedRows(name, glob) ==
  {Row(Admit(e, glob)) : e \in {x \in Range(ArchiveOf(name)) : Admit(x, glob) # NoFile}}

\* the rows of a batch
BatchRows(batch) == {Row(f) : f \in Range(batch)}

\* a batch of the run has not been passed to a storeFiles call that returned
Unflushed(q) ==
  /\ Len(q.run.currentBatch) > 0
  /\ \/ q.calls = <<>>
     \/ ~q.calls[Len(q.calls)].ok
     \/ q.calls[Len(q.calls)].files # Len(q.run.currentBatch)
     \/ q.calls[Len(q.calls)].bytes # BatchBytes(q.run.currentBatch)

\* C1: at most one population run (archive fetch through finalizeBatch) of a
\* partition and glob is in flight at any time.
C1_SingleFlight == Cardinality({r \in Reqs : InRun(reqs[r])}) <= 1

\* C2: a read without force that finds now - lastFetched < TTL is answered
\* from the store: the request ends with the answer of the query, it has
\* fetched no archive and called neither storeFiles nor finalizeBatch, and
\* rows, lastFetched and alarm are as before.
C2_FreshReadNoRun ==
  [][\A r \in Reqs :
       (/\ reqs[r].pc = "read"
        /\ reqs'[r].reads = 1
        /\ ~reqs[r].force
        /\ now' - LastFetched(reqs[r].glob) < DEFAULT_TTL)
       => /\ reqs'[r].pc = "done"
          /\ reqs'[r].resp.type \in {"json", "text", "markdown"}
          /\ reqs'[r].pops = 0
          /\ reqs'[r].calls = <<>>
          /\ reqs'[r].finals = 0
          /\ RowsOf(tables', reqs[r].glob) = RowsOf(tables, reqs[r].glob)
          /\ meta' = meta
          /\ alarm' = alarm]_vars

\* a read without force was answered from the store at age TTL - 1
C2_Witness ==
  \E r \in Reqs :
    /\ reqs[r].pc = "done"
    /\ ~reqs[r].force
    /\ reqs[r].reads = 1
    /\ reqs[r].pops = 0
    /\ reqs[r].resp.type = "text"
    /\ reqs[r].resp.status = 200
    /\ now - LastFetched(reqs[r].glob) = DEFAULT_TTL - 1

\* C3: a read is answered (Fresh) exactly when now - lastFetched < TTL, an
\* absent lastFetched read as 0; otherwise it reports NEEDS_REFRESH.
C3_FreshIffWithinTTL ==
  [][\A r \in Reqs :
       (reqs[r].pc = "read" /\ reqs'[r].reads = reqs[r].reads + 1)
       => ((reqs'[r].pc = "done" /\ reqs'[r].resp.type # "thrown")
           <=> now' - LastFetched(reqs[r].glob) < DEFAULT_TTL)]_vars

\* a read at age exactly TTL has reported NEEDS_REFRESH
C3_Witness ==
  \E r \in Reqs :
    /\ reqs[r].pc = "fetch"
    /\ reqs[r].stage = "catch"
    /\ globToTableSuffix(reqs[r].glob) \in DOMAIN meta
    /\ now - LastFetched(reqs[r].glob) = DEFAULT_TTL

\* C4: a request never loops.  Without force it starts at most one run, with
\* force at most two; it reads at most twice and the second read ends it: a
\* read without force that was stale and whose run finalized is read again
\* once, and is then answered or fails with NEEDS_REFRESH.
C4_NoLoop ==
  \A r \in Reqs :
    LET q == reqs[r]
    IN  /\ q.pops <= (IF q.force THEN 2 ELSE 1)
        /\ q.finals <= q.pops
        /\ q.reads <= 2
        /\ q.reads = 2 => q.pc = "done"
        /\ (~q.force /\ q.finals = 1)
             => \/ q.pc = "read" /\ q.reads = 1 /\ q.pops = 1
                \/ /\ q.pc = "done" /\ q.reads = 2 /\ q.pops = 1
                   /\ \/ q.resp.type \in {"json", "text", "markdown"}
                      \/ q.resp = Thrown("NEEDS_REFRESH")
        /\ (q.pc = "done" /\ q.resp = Thrown("NEEDS_REFRESH"))
             => q.reads = 2 /\ q.finals >= 1

\* a read without force found the partition stale, ran one run and was
\* answered by its second read
C4_Witness ==
  \E r \in Reqs :
    /\ reqs[r].pc = "done"
    /\ ~reqs[r].force
    /\ reqs[r].pops = 1
    /\ reqs[r].finals = 1
    /\ reqs[r].reads = 2
    /\ reqs[r].resp.status = 200

\* C5: lastFetched changes only when the alarm deletes it or when a run calls
\* finalizeBatch, and that run has then consumed the whole archive and every
\* batch it filled has been passed to a storeFiles call that returned.
C5_FinalizeAfterBatches ==
  [][meta' # meta
       => \/ meta' = EmptyFn
          \/ \E r \in Reqs :
               /\ reqs[r].pc = "finalize"
               /\ reqs'[r].finals = reqs[r].finals + 1
               /\ AtEnd(reqs[r].run)
               /\ ~Unflushed(reqs[r])]_vars

\* a run of two batches has finalized
C5_Witness ==
  \E r \in Reqs :
    /\ reqs[r].pc = "read"
    /\ reqs[r].finals = 1
    /\ Len(reqs[r].calls) = 2
    /\ LastFetched(reqs[r].glob) = now

C7_ExactlyAdmitted ==
  \A r \in Reqs :
    (reqs[r].pc = "read" /\ reqs[r].finals > 0 /\ reqs[r].alone)
    => RowsOf(tables, reqs[r].glob) = AdmittedRows(reqs[r].run.archive, reqs[r].glob)

\* C8: no batch passed to storeFiles is larger than MAX_BATCH_SIZE, and a
\* batch is sent from the callback exactly when the next file would take it
\* over MAX_BATCH_SIZE; that file is then the first of the new batch.
C8_BatchCeiling ==
  [][\A r \in Reqs :
       Len(reqs'[r].calls) = Len(reqs[r].calls) + 1
       => LET c == reqs'[r].calls[Len(reqs'[r].calls)]
              file == Admit(EntryAt(reqs[r].run), reqs[r].glob)
          IN  /\ c.bytes <= MAX_BATCH_SIZE
              /\ c.files > 0
              /\ (reqs[r].pc = "parse" /\ c.ok)
                   => /\ c.bytes + fileSize(file) > MAX_BATCH_SIZE
                      /\ reqs'[r].run.currentBatch # <<>>
                      /\ Head(reqs'[r].run.currentBatch) = file]_vars

\* a batch of exactly MAX_BATCH_SIZE has been sent and the next file has
\* started a new batch
C8_Witness ==
  \E r \in Reqs :
    /\ Len(reqs[r].calls) = 2
    /\ reqs[r].calls[1].bytes = MAX_BATCH_SIZE
    /\ reqs[r].calls[1].files = 21
    /\ reqs[r].calls[2].files = 1

\* the file reads of C9: a getFile that is answered while the table holds the
\* rows left by the last run, for an admitted entry e of that run's archive
RoundTrip(limited) ==
  \A r \in Reqs :
       (/\ reqs[r].pc = "read"
        /\ reqs'[r].pc = "done"
        /\ reqs'[r].kind = "file"
        /\ hist.run.valid
        /\ hist.run.glob = reqs[r].glob
        /\ hist.run.rows = RowsOf(tables, reqs[r].glob))
       => \A e \in Range(ArchiveOf(hist.run.archive)) :
            (/\ Admit(e, reqs[r].glob) # NoFile
             /\ RelPath(e.name) = reqs'[r].path
             /\ limited => /\ Len(Split(RawText(e))) <= MAX_FILE_LINES
                           /\ ~StartsWith(e.b, <<"BOM">>))
            => reqs'[r].resp = TextResponse(Split(RawText(e)))

\* C9 as stated: getFile(f) without start, end and line numbers returns
\* exactly the content C of the archive's admitted file f.
C9_RoundTrip == [][RoundTrip(FALSE)]_vars

\* C9: getFile(f) without start, end and line numbers returns exactly the
\* content C of the archive's admitted file f, when C has at most
\* MAX_FILE_LINES lines and does not begin with a byte order mark.
C9_RoundTripLimited == [][RoundTrip(TRUE)]_vars

\* a file of exactly MAX_FILE_LINES lines has been returned whole
C9_Witness ==
  \E r \in Reqs :
    /\ reqs[r].pc = "done"
    /\ reqs[r].kind = "file"
    /\ reqs[r].path = P_k
    /\ reqs[r].resp = TextResponse(Split(RawText(E_1000)))
    /\ Len(reqs[r].resp.body) = MAX_FILE_LINES

\* C10: a run that follows a finalized run of the same glob with the same
\* archive served, with nothing in between or interleaved, ends with
\* finalizeBatch and leaves the rows the first run left.
C10_Idempotent ==
  \A r \in Reqs :
    LET q == reqs[r]
    IN  (q.twice /\ q.alone)
        => /\ q.resp # Thrown("storeFiles")
           /\ \A i \in 1..Len(q.calls) : q.calls[i].ok
           /\ (q.pc = "read" /\ q.finals > 0)
                => /\ hist.prev.valid
                   /\ RowsOf(tables, q.glob) = hist.prev.rows

\* the second of two runs of two batches each has finalized
C10_Witness ==
  \E r \in Reqs :
    /\ reqs[r].pc = "read"
    /\ reqs[r].finals > 0
    /\ reqs[r].twice
    /\ reqs[r].alone
    /\ Len(reqs[r].calls) = 2
    /\ Cardinality(hist.prev.rows) = 22

\* the rows of the batches a run has passed to storeFiles calls that returned:
\* the admitted entries it has read, without the batch it is filling
FlushedRows(q) ==
  LET arch == ArchiveOf(q.run.archive)
      seen == {Admit(arch[i], q.glob) : i \in 1..(q.run.idx - 1)} \ {NoFile}
  IN  {Row(f) : f \in seen} \ BatchRows(q.run.currentBatch)

\* C11: when the archive fetch is not ok (404, 429 or any other status) the
\* request ends with a JSON error response of status 404 (for 404) or 500,
\* the run has called neither storeFiles nor finalizeBatch, and tables, meta
\* and alarm are as before.
C11_FetchErrorNoChange ==
  [][\A r \in Reqs :
       (/\ reqs[r].pc = "fetch"
        /\ reqs'[r].pops = reqs[r].pops + 1
        /\ ~upstream'.ok)
       => /\ reqs'[r].pc = "done"
          /\ reqs'[r].resp.type = "json"
          /\ reqs'[r].resp.status = (IF upstream'.status = 404 THEN 404 ELSE 500)
          /\ reqs'[r].calls = <<>>
          /\ reqs'[r].finals = reqs[r].finals
          /\ tables' = tables
          /\ meta' = meta
          /\ alarm' = alarm]_vars

\* a forced read of a populated partition whose branch has been deleted has
\* ended with the 404 response, and the rows of the last run are still there
C11_Witness ==
  \E r \in Reqs :
    /\ reqs[r].pc = "done"
    /\ reqs[r].force
    /\ reqs[r].resp.status = 404
    /\ upstream = NotServed(404)
    /\ hist.run.valid
    /\ hist.run.rows # {}
    /\ RowsOf(tables, reqs[r].glob) = hist.run.rows
    /\ alarm = LastFetched(reqs[r].glob) + ONE_DAY

\* C12: when the archive stream of a run breaks after k >= 1 storeFiles calls
\* have returned (no other run and no eviction in between), the table holds
\* exactly the rows of those k batches, lastFetched is what it was when the
\* run started and the alarm is untouched; and a first read that then finds
\* the glob stale starts a run.
C12_PartialRunStays ==
  [][\A r \in Reqs :
       /\ (/\ reqs[r].pc \in {"parse", "last"}
           /\ reqs'[r].resp = Thrown("parseTar")
           /\ reqs[r].run.batchNumber >= 1
           /\ reqs[r].alone)
          => /\ RowsOf(tables', reqs[r].glob) = FlushedRows(reqs[r])
             /\ meta' = meta
             /\ LastFetched(reqs[r].glob) = reqs[r].last0
             /\ alarm' = alarm
       /\ (/\ reqs[r].pc = "read"
           /\ reqs[r].stage = "try"
           /\ reqs'[r].reads = reqs[r].reads + 1
           /\ hist.run.failed
           /\ hist.run.glob = reqs[r].glob
           /\ ~(now' - LastFetched(reqs[r].glob) < DEFAULT_TTL))
          => /\ reqs'[r].pc = "fetch"
             /\ reqs'[r].stage = "catch"]_vars

\* after a run of a populated partition that broke with one batch of 21 files
\* stored, a read has found the glob stale and is about to populate
C12_Witness ==
  \E r \in Reqs :
    /\ reqs[r].pc = "fetch"
    /\ reqs[r].stage = "catch"
    /\ reqs[r].reads = 1
    /\ hist.run.failed
    /\ hist.prev.valid
    /\ Cardinality(hist.prev.rows) = 22
    /\ Cardinality(hist.run.rows) = 21
    /\ RowsOf(tables, reqs[r].glob) = hist.run.rows
    /\ LastFetched(reqs[r].glob) > 0

\* C13: a read is never answered from the table while a run of another
\* request for the same glob is between its first storeFiles call and its
\* last one.
C13_NoPartialRead ==
  [][\A r \in Reqs :
       (/\ reqs[r].pc = "read"
        /\ reqs'[r].pc = "done"
        /\ reqs'[r].resp.type # "thrown")
       => ~\E x \in Reqs \ {r} :
             /\ reqs[x].pc \in {"parse", "last"}
             /\ reqs[x].run.batchNumber >= 1
             /\ reqs[x].glob = reqs[r].glob]_vars

\* the lastFetched values of the meta table that are not older than 24 hours
\* at time t
ActiveAt(t) == {ParseNumber(meta[k]) : k \in {x \in DOMAIN meta : t - ParseNumber(meta[x]) <= ONE_DAY}}

MinOf(S) == CHOOSE m \in S : \A x \in S : m <= x

\* the val of a meta row, <<>> when there is none
MetaAt(mt, key) == IF key \in DOMAIN mt THEN mt[key] ELSE <<>>

C15_RescheduleFromOldest ==
  [][(reqs'[1].kind = "alarm" /\ ActiveAt(now') # {})
       => alarm' = MinOf(ActiveAt(now')) + ONE_DAY]_vars

\* C16: whenever the partition holds a file row or a meta row, an alarm is
\* scheduled.
C16_AlwaysArmed ==
  ((\E k \in DOMAIN tables : tables[k] # {}) \/ meta # EmptyFn) => alarm # NoAlarm

C18_NoForeignRows ==
  [][\A r \in Reqs :
       (/\ reqs[r].pc = "read"
        /\ reqs'[r].pc = "done"
        /\ reqs'[r].resp.type # "thrown"
        /\ hist.run.valid
        /\ hist.run.rows # {}
        /\ hist.run.rows = RowsOf(tables, reqs[r].glob))
       => hist.run.glob = reqs[r].glob]_vars

\* C19: a storeFiles or finalizeBatch call for one glob signature leaves the
\* table (its existence and its rows) and the lastFetched row of every other
\* signature as they were, and getFiles for a glob is answered exactly when
\* now - (that glob's lastFetched) < TTL.
C19_SignatureFrame ==
  [][\A g \in ActorGlobs :
       LET sfx == globToTableSuffix(g)
       IN  /\ (/\ reqs'[1].kind \in {"storeFiles", "finalizeBatch"}
               /\ globToTableSuffix(reqs'[1].glob) # sfx)
              => /\ sfx \in DOMAIN tables' <=> sfx \in DOMAIN tables
                 /\ RowsOf(tables', g) = RowsOf(tables, g)
                 /\ MetaAt(meta', sfx) = MetaAt(meta, sfx)
           /\ (reqs'[1].kind = "getFiles" /\ reqs'[1].glob = g)
              => (reqs'[1].resp.type # "thrown"
                  <=> now' - LastFetched(g) < DEFAULT_TTL)]_vars

\* both signatures hold rows; the one finalized first has been refused as
\* stale while the other, finalized later, is fresh
C19_Witness ==
  /\ reqs[1].kind = "getFiles"
  /\ reqs[1].resp = Thrown("NEEDS_REFRESH")
  /\ \A g \in ActorGlobs : RowsOf(tables, g) # {}
  /\ \A g \in ActorGlobs : globToTableSuffix(g) \in DOMAIN meta
  /\ \E g \in ActorGlobs \ {reqs[1].glob} : now - LastFetched(g) < DEFAULT_TTL
  /\ RowsOf(tables, DEFAULT_GLOB) # RowsOf(tables, ALL_GLOB)

\* C20: a request whose archive fetch answered 404, for a repository the
\* branch lookup does not report missing, ends with status 404 and error
\* "Branch not found": when the lookup answers with at least one branch, with
\* the "Try one of the available branches" suggestion and a list of one to
\* ten of the repository's branch names; when the lookup fails (403, another
\* status, no connection) or answers with no branch, with the "verify the
\* branch name" suggestion and no list.
C20_BranchNotFound ==
  \A r \in Reqs :
    LET q == reqs[r]
        body == q.resp.body
        listed == SubSeq(body, 3, Len(body))
    IN  (q.pc = "done" /\ q.api # NoApi /\ q.api.status # 404)
        => /\ q.resp.status = 404
           /\ q.resp.type = "json"
           /\ body[1] = "Branch not found"
           /\ IF q.api.status = 200 /\ Len(q.api.names) > 0
                THEN /\ body[2] = SuggestTry
                     /\ Len(listed) >= 1
                     /\ Len(listed) <= 10
                     /\ Range(listed) \subseteq Range(q.api.names)
                ELSE body = <<"Branch not found", SuggestVerify>>

\* the lookup listed twelve branches and the response names ten of them, the
\* priority name first
C20_Witness ==
  \E r \in Reqs :
    /\ reqs[r].pc = "done"
    /\ reqs[r].api = ApiOk(ManyBranches)
    /\ Len(reqs[r].resp.body) = 12
    /\ reqs[r].resp.body[2] = SuggestTry
    /\ reqs[r].resp.body[3] = "main"
    /\ reqs[r].resp.body[12] = "b09"

\* C21: a request whose archive fetch answered 404 and whose branch lookup
\* answered 404 (REPO_NOT_FOUND) ends with status 404 and error "Repository
\* not found", not with "Branch not found".
C21_RepoNotFound ==
  \A r \in Reqs :
    LET q == reqs[r]
    IN  (q.pc = "done" /\ q.api # NoApi /\ q.api.status = 404)
        => /\ q.resp.status = 404
           /\ q.resp.type = "json"
           /\ q.resp.body[1] = "Repository not found"
           /\ "Branch not found" \notin Range(q.resp.body)

\* the lookup answered 404 and the request has ended
C21_Witness ==
  \E r \in Reqs :
    /\ reqs[r].pc = "done"
    /\ reqs[r].pops = 1
    /\ reqs[r].api = ApiFails(404)
    /\ reqs[r].resp = RepoNotFoundResponse

\* s.toLowerCase().includes(q.toLowerCase())
ContainsNoCase(s, q) == IndexOf(ToLowerCase(s), ToLowerCase(q)) # -1

\* the query is a case-insensitive literal substring of the path or of the
\* content of the row
LiteralMatch(row, query) ==
  \/ ContainsNoCase(row.path, query)
  \/ ContainsNoCase(Chars(row.content, Len(row.content.s) + Len(query)), query)

\* the request has been answered by searchFiles
Searched(q) == q.pc = "done" /\ q.kind = "search" /\ q.resp.type = "markdown"

\* the paths of the files a search response returns
ResultPaths(resp) == {resp.body.results[i].path : i \in 1..Len(resp.body.results)}

\* C22: searchFiles returns a stored file if and only if the query occurs as a
\* case-insensitive literal substring of the file's path or of its content,
\* for every query string.
C22_LiteralSubstring ==
  \A r \in Reqs :
    Searched(reqs[r]) =>
      ResultPaths(reqs[r].resp) =
        {row.path : row \in {x \in RowsOf(tables, reqs[r].glob) : LiteralMatch(x, reqs[r].path)}}

\* the paths of a search response, in its order
ResultSeq(resp) == [i \in 1..Len(resp.body.results) |-> resp.body.results[i].path]

\* the row of a path
RowAt(rows, path) == CHOOSE row \in rows : row.path = path

\* C23: search results are ordered with every file whose path matches the
\* query before every file that matches only in content, and within each of
\* the two groups in ascending lexicographic order of path; each matching file
\* appears exactly once.
C23_Order ==
  \A r \in Reqs :
    Searched(reqs[r]) =>
      LET query == reqs[r].path
          rows == RowsOf(tables, reqs[r].glob)
          res == ResultSeq(reqs[r].resp)
          inPath(p) == ContainsNoCase(p, query)
          matching == {i \in 1..Len(res) :
                         res[i] \in PathsOf(rows) /\ LiteralMatch(RowAt(rows, res[i]), query)}
      IN  /\ \A row \in rows :
               LiteralMatch(row, query) =>
                 Cardinality({i \in 1..Len(res) : res[i] = row.path}) = 1
          /\ \A i, j \in matching :
               i < j => /\ inPath(res[j]) => inPath(res[i])
                        /\ inPath(res[i]) = inPath(res[j]) => StrLess(res[i], res[j])

\* the 1-based number of the line of the text on which the query first
\* occurs without regard to case, NoLine when it does not occur
MatchLine(content, query) ==
  LET text == Chars(content, Len(content.s) + Len(query))
      index == IndexOf(ToLowerCase(text), ToLowerCase(query))
  IN  IF index = -1 THEN NoLine ELSE Len(SplitLines(Substring(text, 0, index)))

\* C24: for every search hit whose stored content contains the query, the
\* reported line number is the 1-based number of the line of the content on
\* which the first match of the query occurs ("a\nb\nneedle here\nc" with
\* "needle" gives 3, "# Title\nHello" with "Hello" gives 2).
C24_LineOfMatch ==
  \A r \in Reqs :
    Searched(reqs[r]) =>
      \A i \in 1..Len(reqs[r].resp.body.results) :
        LET hit == reqs[r].resp.body.results[i]
            row == RowAt(RowsOf(tables, reqs[r].glob), hit.path)
            line == MatchLine(row.content, reqs[r].path)
        IN  line # NoLine => hit.contentUrl.start = line

\* the SELECT of searchFiles matches no row of the partition
NoRowMatches(rows, query) ==
  \A row \in rows : ~Like(row.path, query) /\ ~LikeText(row.content, query)

Unresolvable(content, snippet) ==
  LET clean == Trim(cleanSnippet(snippet))
      text == Chars(content, Len(content.s) + Len(clean))
  IN  \/ TextLength(content) = 0
      \/ Len(clean) < 3
      \/ /\ IndexOf(text, clean) = -1
         /\ \A w \in Range(Words(clean)) : Len(w) > 2 => IndexOf(text, w) = -1

\* C26: when no line can be resolved for a hit, the hit is still returned with
\* its path and snippet, its line number is null and its locator URL carries
\* no start parameter; line resolution never makes the search fail.
C26_NullLine ==
  \A r \in Reqs :
    Searched(reqs[r]) =>
      LET query == reqs[r].path
          rows == RowsOf(tables, reqs[r].glob)
          hits == reqs[r].resp.body.results
      IN  /\ reqs[r].resp.status = 200
          /\ \A row \in rows :
               (Like(row.path, query) \/ LikeText(row.content, query)) =>
                 \E i \in 1..Len(hits) :
                   /\ hits[i].path = row.path
                   /\ hits[i].snippet = extractSnippetFromContent(row.content, query)
                   /\ Unresolvable(row.content, hits[i].snippet) =>
                        hits[i].contentUrl.start = NoLine

\* a search for "needle" has returned needle.md, whose snippet is two
\* characters long, and long.md, whose snippet is cut on both sides and has
\* no space, both without a line
C26_Witness ==
  /\ Searched(reqs[1])
  /\ reqs[1].path = Q_needle
  /\ RowsOf(tables, DEFAULT_GLOB) = {S_long, S_needle}
  /\ Len(reqs[1].resp.body.results) = 2
  /\ reqs[1].resp.body.results[1].path = S_needle.path
  /\ reqs[1].resp.body.results[1].snippet = <<"a", "b">>
  /\ reqs[1].resp.body.results[1].contentUrl.start = NoLine
  /\ reqs[1].resp.body.results[2].path = S_long.path
  /\ StartsWith(reqs[1].resp.body.results[2].snippet, Ellipsis)
  /\ EndsWith(reqs[1].resp.body.results[2].snippet, Ellipsis)
  /\ reqs[1].resp.body.results[2].contentUrl.start = NoLine

\* the file entries of an archive that are not valid UTF-8 or are
\* MAX_TEXT_BYTES bytes or larger
BadEntries(name) ==
  {e \in Range(ArchiveOf(name)) :
     e.type = "file" /\ (DecodeThrows(e) \/ byteLength(e) >= MAX_TEXT_BYTES)}

\* C30: an archive entry that is not valid UTF-8 or is 1,000,000 bytes or
\* larger is never stored and never aborts the run: every other admitted entry
\* of the archive, before and after it, is still stored and the run finalizes.
C30_BadEntriesSkipped ==
  \A r \in Reqs :
    LET q == reqs[r]
        rows == RowsOf(tables, q.glob)
    IN  (q.pops > 0 /\ BadEntries(q.run.archive) # {}) =>
          /\ (q.pc = "done" /\ q.resp.type = "thrown") => q.finals > 0
          /\ (q.pc = "read" /\ q.finals > 0 /\ q.alone) =>
               /\ \A e \in BadEntries(q.run.archive) : RelPath(e.name) \notin PathsOf(rows)
               /\ \A e \in Range(ArchiveOf(q.run.archive)) \ BadEntries(q.run.archive) :
                    Admit(e, q.glob) # NoFile => Row(Admit(e, q.glob)) \in rows

\* a run over the archive with an invalid entry and an oversized one before
\* three admitted ones has finalized, and the table holds the three
C30_Witness ==
  \E r \in Reqs :
    /\ reqs[r].pc = "read"
    /\ reqs[r].finals > 0
    /\ reqs[r].run.archive = "mixed"
    /\ BadEntries("mixed") = {E_bin, E_over}
    /\ PathsOf(RowsOf(tables, reqs[r].glob)) = {RelPath(E_bom.name), RelPath(E_max.name), P_a}

\* the request has been answered by getFile with the content of a stored file
GotFile(q) == q.pc = "done" /\ q.kind = "file" /\ q.resp.status = 200

\* the line of the output carries the line of the content, as it is or after
\* its line number
Carries(out, line) == EndsWith(out.s, line.s) /\ out.pad = line.pad

\* C27: with neither start nor end given, getFile returns at most 1000 lines
\* of the file's content: a file of more than 1000 lines is cut after line
\* 1000 and followed by a "[File truncated: N more lines]" marker with
\* N = total lines - 1000, while a file of at most 1000 lines is returned
\* whole.
C27_AtMostMaxLines ==
  \A r \in Reqs :
    (GotFile(reqs[r]) /\ reqs[r].start = Undefined /\ reqs[r].end = Undefined) =>
      LET lines == Split(RowAt(RowsOf(tables, reqs[r].glob), reqs[r].path).content)
          total == Len(lines)
          body == reqs[r].resp.body
      IN  IF total > 1000
            THEN /\ Len(body) = 1001
                 /\ \A i \in 1..1000 : Carries(body[i], lines[i])
                 /\ body[1001] = Line(StrTruncated(total - 1000))
            ELSE /\ \A i \in 1..total : Carries(body[i], lines[i])
                 /\ IF reqs[r].showLineNumbers
                      THEN Len(body) = total + 1 /\ body[total + 1] = Line(StrEndOfFile)
                      ELSE body = lines

\* the file of 1003 lines has been read without start and end: 1000 lines
\* and the marker of 3 more lines
C27_Witness ==
  /\ GotFile(reqs[1])
  /\ reqs[1].start = Undefined
  /\ reqs[1].end = Undefined
  /\ reqs[1].path = F_path(MAX_FILE_LINES + 3)
  /\ Len(reqs[1].resp.body) = MAX_FILE_LINES + 1
  /\ reqs[1].resp.body[MAX_FILE_LINES + 1] = Line(StrTruncated(3))

\* the end of the window a request asks for: its end, 49 lines after its start
\* when only the start is given, line 1000 when neither is given and the file
\* is longer, else none
WindowEnd(q, total) ==
  LET end == IF q.start # Undefined /\ q.end = Undefined THEN q.start + 49 ELSE q.end
  IN  IF q.start = Undefined /\ end = Undefined /\ total > 1000 THEN 1000 ELSE end

\* the output of the request is line-numbered
Numbered(q, total) ==
  q.showLineNumbers \/ q.start # Undefined \/ WindowEnd(q, total) # Undefined

\* a marker line of formatFileWithLines
IsMarker(line) ==
  line = Line(StrEndOfFile) \/ StartsWith(line.s, <<"[", "F", "i", "l", "e", " ">>)

\* the body ends with the marker, and no line before it is a marker
EndsWithOnly(body, marker) ==
  /\ Len(body) >= 1
  /\ body[Len(body)] = marker
  /\ \A i \in 1..(Len(body) - 1) : ~IsMarker(body[i])

\* C28 as stated: line-numbered getFile output ends with exactly one marker
\* line, "end of file" when the requested window reaches the last line of the
\* file, otherwise "[File truncated: N more lines]" with
\* N = total lines - min(end, total lines).
C28_MarkerAsStated ==
  \A r \in Reqs :
    GotFile(reqs[r]) =>
      LET total == Len(Split(RowAt(RowsOf(tables, reqs[r].glob), reqs[r].path).content))
          end == WindowEnd(reqs[r], total)
      IN  Numbered(reqs[r], total) =>
            EndsWithOnly(reqs[r].resp.body,
                         IF end = Undefined \/ end >= total
                           THEN Line(StrEndOfFile)
                           ELSE Line(StrTruncated(total - Min(end, total))))

\* C28: line-numbered getFile output ends with exactly one marker line: "end
\* of file" when the window has no end, the end 0, or an end at or after the
\* last line of the file, otherwise "[File truncated: N more lines]" with
\* N = total lines - min(end, total lines) (a 54-line file read with start=6,
\* end=12 reports 42 more lines).
C28_Marker ==
  \A r \in Reqs :
    GotFile(reqs[r]) =>
      LET total == Len(Split(RowAt(RowsOf(tables, reqs[r].glob), reqs[r].path).content))
          end == WindowEnd(reqs[r], total)
      IN  Numbered(reqs[r], total) =>
            EndsWithOnly(reqs[r].resp.body,
                         IF end = Undefined \/ end = 0 \/ end >= total
                           THEN Line(StrEndOfFile)
                           ELSE Line(StrTruncated(total - Min(end, total))))

\* the file of 54 lines has been read with start=6 and end=12: lines 6 to 12
\* and the marker of 42 more lines
C28_Witness ==
  /\ GotFile(reqs[1])
  /\ reqs[1].path = F_path(54)
  /\ reqs[1].start = 6
  /\ reqs[1].end = 12
  /\ Len(reqs[1].resp.body) = 8
  /\ reqs[1].resp.body[8] = Line(StrTruncated(42))

\* C29: getFile for a path that has no row in the file table of the glob of a
\* fresh partition returns a 404 "Not found" response and changes no stored
\* state (rows, meta table, alarm).
C29_NotFound ==
  [][\A r \in Reqs :
       (/\ reqs[r].pc = "read"
        /\ reqs'[r].pc = "done"
        /\ reqs'[r].kind = "file"
        /\ reqs'[r].path \notin PathsOf(RowsOf(tables, reqs[r].glob)))
       => /\ reqs'[r].resp.status = 404
          /\ reqs'[r].resp.body = <<"Not found">>
          /\ \A g \in Globs : RowsOf(tables', g) = RowsOf(tables, g)
          /\ meta' = meta
          /\ alarm' = alarm]_vars

\* the path n.md, which the partition does not hold, has been read with a
\* window
C29_Witness ==
  /\ reqs[1].pc = "done"
  /\ reqs[1].kind = "file"
  /\ reqs[1].path = P_none
  /\ reqs[1].start = 6
  /\ RowsOf(tables, DEFAULT_GLOB) = {F_row(54)}
  /\ reqs[1].resp = NotFoundResponse

\* a text file as populateRepo takes it: a file entry under MAX_TEXT_BYTES
\* bytes that is valid UTF-8
IsTextEntry(e) == e.type = "file" /\ byteLength(e) < MAX_TEXT_BYTES /\ ~DecodeThrows(e)

\* the glob admits the path: the wildcard glob admits every path, any other
\* glob the paths it matches
GlobAdmits(glob, path) == glob = ALL_GLOB \/ isMatch(path, glob)

\* C31: when a run under glob G that no other run and no eviction interleaved
\* with has finalized, every path of G's table is admitted by G and every text
\* file of the run's archive whose path G admits is a row of the table; the
\* wildcard glob rejects no entry because of its path.
C31_GlobFilter ==
  \A r \in Reqs :
    LET q == reqs[r]
        rows == RowsOf(tables, q.glob)
    IN  (q.pc = "read" /\ q.finals > 0 /\ q.alone) =>
          /\ \A p \in PathsOf(rows) : GlobAdmits(q.glob, p)
          /\ \A e \in Range(ArchiveOf(q.run.archive)) :
               (IsTextEntry(e) /\ GlobAdmits(q.glob, RelPath(e.name)))
                 => [path |-> RelPath(e.name), content |-> Decode(e)] \in rows

\* the step is a storeFiles call of request r that threw
FlushFailed(r) ==
  /\ Len(reqs'[r].calls) = Len(reqs[r].calls) + 1
  /\ ~reqs'[r].calls[Len(reqs'[r].calls)].ok

\* C32: when a storeFiles call of a run throws, in the callback or after the
\* last entry, the run ends there with the exception: the request makes no
\* further storeFiles call and no finalizeBatch call, drops no entry that
\* follows, and lastFetched stays as it was.
C32_FlushFailureFailsRun ==
  [][\A r \in Reqs :
       FlushFailed(r) =>
         /\ reqs'[r].pc = "done"
         /\ reqs'[r].resp.type = "thrown"
         /\ meta' = meta]_vars

\* C33: when a run calls finalizeBatch, the table holds every row the run has
\* passed to storeFiles (all admitted entries of its archive), whatever alarm()
\* calls were delivered between the calls of the run.
C33_AlarmKeepsFlushedRows ==
  [][\A r \in Reqs :
       (reqs[r].pc = "finalize" /\ reqs'[r].finals = reqs[r].finals + 1)
       => AdmittedRows(reqs[r].run.archive, reqs[r].glob)
            \subseteq RowsOf(tables', reqs[r].glob)]_vars

\* the admitted entries of an archive, in archive order
AdmittedSeq(name, glob) ==
  LET IsAdmitted(e) == Admit(e, glob) # NoFile
      kept == SelectSeq(ArchiveOf(name), IsAdmitted)
  IN  [i \in 1..Len(kept) |-> Admit(kept[i], glob)]

\* the number of files of the storeFiles calls a run has made
RECURSIVE FilesSent(_)
FilesSent(calls) ==
  IF Len(calls) = 0 THEN 0 ELSE calls[1].files + FilesSent(Tail(calls))

AllOk(calls) == \A i \in 1..Len(calls) : calls[i].ok

\* C34: in a run whose storeFiles calls all return, every call is passed a
\* batch that is not empty and that is the part of the sequence of admitted
\* entries, in archive order, that follows the files of the calls before it;
\* when the run calls finalizeBatch the calls have carried the whole sequence.
C34_BatchesInArchiveOrder ==
  [][\A r \in Reqs :
       LET q == reqs[r]
           batch == q.run.currentBatch
           n == FilesSent(q.calls)
           adm == AdmittedSeq(q.run.archive, q.glob)
       IN  /\ (Len(reqs'[r].calls) = Len(q.calls) + 1 /\ AllOk(reqs'[r].calls))
               => /\ Len(batch) > 0
                  /\ n + Len(batch) <= Len(adm)
                  /\ batch = SubSeq(adm, n + 1, n + Len(batch))
           /\ (q.pc = "finalize" /\ reqs'[r].finals = q.finals + 1 /\ AllOk(q.calls))
               => n = Len(adm)]_vars

\* a run over the archive of 22 admitted files has sent them in two batches,
\* of 21 files and of 1 file, and has finalized
C34_Witness ==
  \E r \in Reqs :
    /\ reqs[r].pc = "read"
    /\ reqs[r].finals > 0
    /\ reqs[r].run.archive = "batch"
    /\ Len(AdmittedSeq("batch", reqs[r].glob)) = 22
    /\ Len(reqs[r].calls) = 2
    /\ AllOk(reqs[r].calls)
    /\ reqs[r].calls[1].files = 21
    /\ reqs[r].calls[2].files = 1

\* the step is a getFiles, getFile or searchFiles call of request r
ReadStep(r) == reqs[r].pc = "read" /\ reqs'[r].reads = reqs[r].reads + 1

\* the step keeps the rows of every file table; it may create a table, empty
SameRows ==
  /\ DOMAIN tables \subseteq DOMAIN tables'
  /\ \A sfx \in DOMAIN tables' :
       tables'[sfx] = IF sfx \in DOMAIN tables THEN tables[sfx] ELSE {}

Dormant == tables = EmptyFn /\ meta = EmptyFn /\ alarm = NoAlarm

\* C36: once no run finalizes any more, an armed alarm that is delivered
\* whenever it is due leads to the state in which every file table and every
\* meta row is dropped and no alarm is armed.
C36_EventualEviction == (alarm # NoAlarm) ~> Dormant

\* two runs have finalized and an alarm() call has then dropped everything
C36_Witness ==
  /\ ticks = MaxRuns
  /\ reqs[1].kind = "alarm"
  /\ Dormant

\* C37: in line-numbered getFile output every line before the marker is a
\* line of the stored content after its own 1-based line number and two
\* spaces, for every start and end (a start of 0, a negative start or a start
\* after the last line included), and the numbers of one response are padded
\* to one width.
C37_TrueLineNumbers ==
  \A r \in Reqs :
    GotFile(reqs[r]) =>
      \E lines \in {Split(RowAt(RowsOf(tables, reqs[r].glob), reqs[r].path).content)} :
        \E body \in {reqs[r].resp.body} :
          LET first == IF reqs[r].start = Undefined \/ reqs[r].start < 1
                         THEN 1 ELSE reqs[r].start
          IN  Numbered(reqs[r], Len(lines)) =>
                \E w \in 1..5 :
                  \A i \in 1..(Len(body) - 1) :
                    /\ first + i - 1 <= Len(lines)
                    /\ Len(NumToString(first + i - 1)) <= w
                    /\ body[i].s = PadStart(NumToString(first + i - 1), w)
                                     \o <<" ", " ">> \o lines[first + i - 1].s
                    /\ body[i].pad = lines[first + i - 1].pad

\* the snippet without a leading and without a trailing ellipsis marker
StripEllipses(snippet) ==
  LET head == IF StartsWith(snippet, Ellipsis)
                THEN SubSeq(snippet, 4, Len(snippet)) ELSE snippet
  IN  IF EndsWith(head, Ellipsis) THEN SubSeq(head, 1, Len(head) - 3) ELSE head

\* the first of the longest words of at least 3 characters, <<>> if none
LongestWord(words) ==
  LET long == {i \in 1..Len(words) : Len(words[i]) >= 3}
  IN  IF long = {} THEN <<>>
      ELSE words[CHOOSE i \in long :
                   \A j \in long : Len(words[j]) < Len(words[i])
                                     \/ (Len(words[j]) = Len(words[i]) /\ i <= j)]

\* the 1-based line of the character at 0-based index, NoLine for index -1
LineAt(text, index) ==
  IF index = -1 THEN NoLine ELSE Len(SplitLines(Substring(text, 0, index)))

\* the line of the snippet in the content: that of the first place where the
\* snippet without its ellipsis markers stands verbatim, and only when there
\* is none that of the first place where its longest word stands
ResolvedLine(content, snippet) ==
  Only({ Only({ Only({ IF exact # -1 THEN LineAt(text, exact)
                       ELSE Only({ IF word = <<>> THEN NoLine
                                   ELSE LineAt(text, IndexOf(text, word))
                                 : word \in {LongestWord(Words(clean))} })
                     : exact \in {IndexOf(text, clean)} })
              : text \in {Chars(content, Len(content.s) + Len(clean))} })
       : clean \in {Trim(StripEllipses(snippet))} })

\* C38: the line of a hit is that of the first verbatim occurrence in the
\* content of its snippet with the leading and the trailing ellipsis marker
\* both removed; only when the snippet does not occur verbatim, it is the line
\* of the first occurrence of the longest word (3 characters or more) of the
\* snippet.  (Hits with an empty content or a snippet shorter than 3 have no
\* line and are left out.)
C38_ExactThenLongestWord ==
  \A r \in Reqs :
    Searched(reqs[r]) =>
      \E rows \in {RowsOf(tables, reqs[r].glob)} :
        \E hits \in {reqs[r].resp.body.results} :
          \A i \in 1..Len(hits) :
            \E content \in {RowAt(rows, hits[i].path).content} :
              (TextLength(content) > 0 /\ Len(Trim(StripEllipses(hits[i].snippet))) >= 3)
                => hits[i].contentUrl.start = ResolvedLine(content, hits[i].snippet)

\* the place of a name in priorityNames
PriorityIndex(name) == CHOOSE i \in 1..Len(priorityNames) : priorityNames[i] = name

\* p is the beginning of s
IsPrefix(p, s) == Len(p) <= Len(s) /\ SubSeq(s, 1, Len(p)) = p

====
